---- MODULE Spec2Model ----
(***************************************************************************)
(* welltrack: the Sync Client (src/unnamed/part_000, WellnessTracker) and  *)
(* the Persistent Store (src/server.js) as one state machine.              *)
(*                                                                         *)
(* A document is a function from its own keys to values; of the           *)
(* PatientState keys the model keeps "dailyAssessments" (the key both      *)
(* shape checks look at; 0 is JSON null, 1 is an object) and "notes" (the  *)
(* field the mutations write; 0 is the empty string).                      *)
(* A file is a sequence of tokens <<text, value>>.                         *)
(* Time advances in ticks of 300 ms.                                       *)
(***************************************************************************)
EXTENDS Integers, Sequences, FiniteSets, TLC

\* ---------------------------------------------------------------- bounds
\* How many mutations (update calls) the user makes in one session.
MaxMut == 3
\* How many PUT /api/data requests come from outside the auto-save effect
\* (handleImport, or any other holder of the key).
MaxApiPuts == 2
\* How many requests reach the server's middleware chain.
MaxReq == 3
\* How many medications the user adds in one session.
MaxAdds == 2
\* How many mutations the user makes in a session whose pushes may fail, or
\* in which they import a file.
MaxEdits == 2
\* How long the strings are that toTitleCase is called with.
MaxLen == 3
\* How many reportable terms a response of the external service holds.
MaxTerms == 14
\* How many severities (of an effect on a date) a document holds.
MaxSev == 2

\* ------------------------------------------------------- program constants
\* today(): the day of the session.
Today == 1
\* setTimeout(..., 600) of the auto-save effect, in ticks of 300 ms.
DebounceTicks == 2
\* setTimeout(() => setSyncing(false), 300), in ticks of 300 ms.
FlickerTicks == 1

\* ------------------------------------------------------------- documents
DEFAULT_STATE == [dailyAssessments |-> 1, notes |-> 0]

\* JavaScript null, where a document is expected.
Null == [null |-> 0]

\* The document an older version of the client left in localStorage.
LegacyDoc == [dailyAssessments |-> 1, notes |-> 7]
\* A document the store holds from an earlier session.
StoredDoc == [dailyAssessments |-> 1, notes |-> 8]
\* Bodies a holder of the key may PUT: a PatientState (what handleImport
\* sends), an object with no dailyAssessments key, one whose
\* dailyAssessments is null, and a body that is no object.
ImportDoc == [dailyAssessments |-> 1, notes |-> 9]
ApiBodies == {ImportDoc, [notes |-> 9], [dailyAssessments |-> 0, notes |-> 9], Null}

\* JavaScript truthiness of a property read: data.dailyAssessments
Truthy(d, k) == k \in DOMAIN d /\ d[k] # 0

\* ------------------------------------------------------------------ JSON
KeyOrder == <<"dailyAssessments", "notes">>
Open == <<"{", 0>>
Close == <<"}", 0>>
\* existsSync(file) is false
NoFile == << <<"ENOENT", 0>> >>

\* JSON.stringify(data, null, 2): the members in key order between braces.
Members(d) == SelectSeq(KeyOrder, LAMBDA k : k \in DOMAIN d)
Stringify(d) ==
    <<Open>> \o [i \in 1..Len(Members(d)) |-> <<Members(d)[i], d[Members(d)[i]]>>]
             \o <<Close>>

\* JSON.parse(raw) does not throw
IsJson(t) ==
    /\ Len(t) >= 2
    /\ t[1] = Open
    /\ t[Len(t)] = Close
    /\ \A i \in 2..(Len(t) - 1) : t[i][1] \in {KeyOrder[j] : j \in DOMAIN KeyOrder}

\* JSON.parse(raw), for a text it accepts
JsonParse(t) ==
    [k \in {t[i][1] : i \in 2..(Len(t) - 1)} |->
        t[CHOOSE i \in 2..(Len(t) - 1) : t[i][1] = k][2]]

\* A write that stopped part-way (writeFile is not atomic), or a damaged disk
\* block: the file is there and JSON.parse throws on it.
Truncate(t) == SubSeq(t, 1, Len(t) - 1)

\* ------------------------------------------------------- Persistent Store
\* readPatientData with the client's truthiness test in place of the in test
readPatientDataTruthy(dataFile, backupFileV) ==
    IF dataFile = NoFile THEN DEFAULT_STATE
    ELSE IF IsJson(dataFile)
         THEN IF Truthy(JsonParse(dataFile), "dailyAssessments")
              THEN JsonParse(dataFile)
              ELSE DEFAULT_STATE
         ELSE IF backupFileV # NoFile /\ IsJson(backupFileV)
              THEN JsonParse(backupFileV)
              ELSE DEFAULT_STATE

\* readPatientData(), on the two files
readPatientData(dataFile, backupFileV) ==
    IF dataFile = NoFile THEN DEFAULT_STATE
    ELSE IF IsJson(dataFile)
         THEN IF "dailyAssessments" \in DOMAIN JsonParse(dataFile)
              THEN JsonParse(dataFile)
              ELSE DEFAULT_STATE
         ELSE \* catch (err)
              IF backupFileV # NoFile /\ IsJson(backupFileV)
              THEN JsonParse(backupFileV)
              ELSE DEFAULT_STATE

\* writePatientData that copies to the backup after it overwrote the primary
writePatientDataBackupLast(dataFile, backupFileV, data, backupOk) ==
    [DATA_FILE   |-> Stringify(data),
     BACKUP_FILE |-> IF backupOk THEN Stringify(data) ELSE backupFileV]


\* writePatientData whose backup step is not in a try block of its own: when
\* it throws, the primary is not written
writePatientDataBackupRequired(dataFile, backupFileV, data, backupOk) ==
    [DATA_FILE   |-> IF dataFile # NoFile /\ ~backupOk THEN dataFile
                     ELSE Stringify(data),
     BACKUP_FILE |-> IF dataFile # NoFile /\ backupOk THEN dataFile ELSE backupFileV]

\* writePatientData(data): the two files after it. backupOk is FALSE when the
\* try block of the backup step threw.
writePatientData(dataFile, backupFileV, data, backupOk) ==
    [DATA_FILE   |-> Stringify(data),
     BACKUP_FILE |-> IF dataFile # NoFile /\ backupOk THEN dataFile ELSE backupFileV]

\* app.put('/api/data'): the status it answers for a body
PutStatus(data, writeOk) ==
    IF data = Null THEN 400
    ELSE IF writeOk THEN 200 ELSE 500

\* ------------------------------------------------------------ Sync Client
\* localStorage.getItem("wellness-tracker-data") returns null
NoItem == << <<"null", 0>> >>

\* loadFromServer(): what it returns (data), the document it hands to
\* saveToServer (push, Null when it calls none) and localStorage after it.
\* respOk: fetch resolved and resp.ok; body: the document of the response.
loadFromServer(respOk, body, storage) ==
    IF respOk /\ body # Null /\ Truthy(body, "dailyAssessments")
    THEN [data |-> body, push |-> Null, storage |-> storage]
    ELSE IF storage # NoItem /\ IsJson(storage)
         THEN [data |-> JsonParse(storage), push |-> JsonParse(storage),
               storage |-> NoItem]
         ELSE [data |-> Null, push |-> Null, storage |-> storage]

\* update(fn): setState(prev => ({ ...prev, ...fn(prev) }))
update(prev, patch) ==
    [k \in DOMAIN prev \cup DOMAIN patch |->
        IF k \in DOMAIN patch THEN patch[k] ELSE prev[k]]

\* clearTimeout that cancels nothing
clearTimeoutNothing(pending, id) == pending

\* clearTimeout(id)
clearTimeout(pending, id) == {t \in pending : t.id # id}

\* The auto-save effect without the initialLoad guard
AutoSaveEffectNoSkip(st, ld, c) ==
    IF ~ld THEN c
    ELSE [c EXCEPT
            !.initialLoad = FALSE,
            !.syncing = TRUE,
            !.timerSeq = @ + 1,
            !.saveTimer = c.timerSeq + 1,
            !.timers = clearTimeout(c.timers, c.saveTimer) \cup
                         {[id |-> c.timerSeq + 1, kind |-> "save",
                           rem |-> DebounceTicks, doc |-> st]}]


\* The auto-save effect without its clearTimeout(saveTimer.current)
AutoSaveEffectNoClear(st, ld, c) ==
    IF ~ld THEN c
    ELSE IF c.initialLoad THEN [c EXCEPT !.initialLoad = FALSE]
    ELSE [c EXCEPT
            !.syncing = TRUE,
            !.timerSeq = @ + 1,
            !.saveTimer = c.timerSeq + 1,
            !.timers = c.timers \cup
                         {[id |-> c.timerSeq + 1, kind |-> "save",
                           rem |-> DebounceTicks, doc |-> st]}]

\* The auto-save effect, run after a render in which state or loaded changed:
\* the client fields it leaves. c holds initialLoad, saveTimer, syncing, timers
\* and timerSeq as they are before it.
AutoSaveEffect(st, ld, c) ==
    IF ~ld THEN c
    ELSE IF c.initialLoad THEN [c EXCEPT !.initialLoad = FALSE]
    ELSE [c EXCEPT
            !.syncing = TRUE,
            !.timerSeq = @ + 1,
            !.saveTimer = c.timerSeq + 1,
            !.timers = clearTimeout(c.timers, c.saveTimer) \cup
                         {[id |-> c.timerSeq + 1, kind |-> "save",
                           rem |-> DebounceTicks, doc |-> st]}]

\* ---------------------------------------------------------------- words
\* The strings of the source that the model computes on, each as the
\* sequence of its characters.
Chars ==
    ("lithium" :>
        <<"l", "i", "t", "h", "i", "u", "m">>)
    @@ ("sertraline" :>
        <<"s", "e", "r", "t", "r", "a", "l", "i", "n", "e">>)
    @@ ("nausea" :>
        <<"n", "a", "u", "s", "e", "a">>)
    @@ ("tremor" :>
        <<"t", "r", "e", "m", "o", "r">>)
    @@ ("diarrhea" :>
        <<"d", "i", "a", "r", "r", "h", "e", "a">>)
    @@ ("vomiting" :>
        <<"v", "o", "m", "i", "t", "i", "n", "g">>)
    @@ ("dizziness" :>
        <<"d", "i", "z", "z", "i", "n", "e", "s", "s">>)
    @@ ("fatigue" :>
        <<"f", "a", "t", "i", "g", "u", "e">>)
    @@ ("headache" :>
        <<"h", "e", "a", "d", "a", "c", "h", "e">>)
    @@ ("weight increased" :>
        <<"w", "e", "i", "g", "h", "t", " ", "i", "n", "c", "r", "e", "a",
          "s", "e", "d">>)
    @@ ("dry mouth" :>
        <<"d", "r", "y", " ", "m", "o", "u", "t", "h">>)
    @@ ("tachycardia" :>
        <<"t", "a", "c", "h", "y", "c", "a", "r", "d", "i", "a">>)
    @@ ("polyuria" :>
        <<"p", "o", "l", "y", "u", "r", "i", "a">>)
    @@ ("thirst" :>
        <<"t", "h", "i", "r", "s", "t">>)
    @@ ("insomnia" :>
        <<"i", "n", "s", "o", "m", "n", "i", "a">>)
    @@ ("decreased appetite" :>
        <<"d", "e", "c", "r", "e", "a", "s", "e", "d", " ", "a", "p", "p",
          "e", "t", "i", "t", "e">>)
    @@ ("hyperhidrosis" :>
        <<"h", "y", "p", "e", "r", "h", "i", "d", "r", "o", "s", "i", "s">>)
    @@ ("sexual dysfunction" :>
        <<"s", "e", "x", "u", "a", "l", " ", "d", "y", "s", "f", "u", "n",
          "c", "t", "i", "o", "n">>)
    @@ ("somnolence" :>
        <<"s", "o", "m", "n", "o", "l", "e", "n", "c", "e">>)
    @@ ("drug ineffective" :>
        <<"d", "r", "u", "g", " ", "i", "n", "e", "f", "f", "e", "c", "t",
          "i", "v", "e">>)
    @@ ("off label use" :>
        <<"o", "f", "f", " ", "l", "a", "b", "e", "l", " ", "u", "s", "e">>)
    @@ ("product substitution issue" :>
        <<"p", "r", "o", "d", "u", "c", "t", " ", "s", "u", "b", "s", "t",
          "i", "t", "u", "t", "i", "o", "n", " ", "i", "s", "s", "u", "e">>)
    @@ ("therapeutic response unexpected" :>
        <<"t", "h", "e", "r", "a", "p", "e", "u", "t", "i", "c", " ", "r",
          "e", "s", "p", "o", "n", "s", "e", " ", "u", "n", "e", "x", "p",
          "e", "c", "t", "e", "d">>)
    @@ ("drug interaction" :>
        <<"d", "r", "u", "g", " ", "i", "n", "t", "e", "r", "a", "c", "t",
          "i", "o", "n">>)
    @@ ("drug exposure during pregnancy" :>
        <<"d", "r", "u", "g", " ", "e", "x", "p", "o", "s", "u", "r", "e",
          " ", "d", "u", "r", "i", "n", "g", " ", "p", "r", "e", "g", "n",
          "a", "n", "c", "y">>)
    @@ ("intentional product misuse" :>
        <<"i", "n", "t", "e", "n", "t", "i", "o", "n", "a", "l", " ", "p",
          "r", "o", "d", "u", "c", "t", " ", "m", "i", "s", "u", "s", "e">>)
    @@ ("product use issue" :>
        <<"p", "r", "o", "d", "u", "c", "t", " ", "u", "s", "e", " ", "i",
          "s", "s", "u", "e">>)
    @@ ("no adverse event" :>
        <<"n", "o", " ", "a", "d", "v", "e", "r", "s", "e", " ", "e", "v",
          "e", "n", "t">>)
    @@ ("condition aggravated" :>
        <<"c", "o", "n", "d", "i", "t", "i", "o", "n", " ", "a", "g", "g",
          "r", "a", "v", "a", "t", "e", "d">>)
    @@ ("death" :>
        <<"d", "e", "a", "t", "h">>)
    @@ ("completed suicide" :>
        <<"c", "o", "m", "p", "l", "e", "t", "e", "d", " ", "s", "u", "i",
          "c", "i", "d", "e">>)
    @@ ("self injury" :>
        <<"s", "e", "l", "f", " ", "i", "n", "j", "u", "r", "y">>)
    @@ ("drug dependence" :>
        <<"d", "r", "u", "g", " ", "d", "e", "p", "e", "n", "d", "e", "n",
          "c", "e">>)
    @@ ("drug abuse" :>
        <<"d", "r", "u", "g", " ", "a", "b", "u", "s", "e">>)
    @@ ("intentional overdose" :>
        <<"i", "n", "t", "e", "n", "t", "i", "o", "n", "a", "l", " ", "o",
          "v", "e", "r", "d", "o", "s", "e">>)
    @@ ("accidental overdose" :>
        <<"a", "c", "c", "i", "d", "e", "n", "t", "a", "l", " ", "o", "v",
          "e", "r", "d", "o", "s", "e">>)
    @@ ("product quality issue" :>
        <<"p", "r", "o", "d", "u", "c", "t", " ", "q", "u", "a", "l", "i",
          "t", "y", " ", "i", "s", "s", "u", "e">>)
    @@ ("product complaint" :>
        <<"p", "r", "o", "d", "u", "c", "t", " ", "c", "o", "m", "p", "l",
          "a", "i", "n", "t">>)
    @@ ("therapeutic response decreased" :>
        <<"t", "h", "e", "r", "a", "p", "e", "u", "t", "i", "c", " ", "r",
          "e", "s", "p", "o", "n", "s", "e", " ", "d", "e", "c", "r", "e",
          "a", "s", "e", "d">>)
    @@ ("therapeutic response increased" :>
        <<"t", "h", "e", "r", "a", "p", "e", "u", "t", "i", "c", " ", "r",
          "e", "s", "p", "o", "n", "s", "e", " ", "i", "n", "c", "r", "e",
          "a", "s", "e", "d">>)
    @@ ("medication error" :>
        <<"m", "e", "d", "i", "c", "a", "t", "i", "o", "n", " ", "e", "r",
          "r", "o", "r">>)
    @@ ("wrong drug administered" :>
        <<"w", "r", "o", "n", "g", " ", "d", "r", "u", "g", " ", "a", "d",
          "m", "i", "n", "i", "s", "t", "e", "r", "e", "d">>)
    @@ ("drug dose omission" :>
        <<"d", "r", "u", "g", " ", "d", "o", "s", "e", " ", "o", "m", "i",
          "s", "s", "i", "o", "n">>)
    @@ ("inappropriate schedule of drug administration" :>
        <<"i", "n", "a", "p", "p", "r", "o", "p", "r", "i", "a", "t", "e",
          " ", "s", "c", "h", "e", "d", "u", "l", "e", " ", "o", "f", " ",
          "d", "r", "u", "g", " ", "a", "d", "m", "i", "n", "i", "s", "t",
          "r", "a", "t", "i", "o", "n">>)
    @@ ("hcl" :>
        <<"h", "c", "l">>)
    @@ ("hydrochloride" :>
        <<"h", "y", "d", "r", "o", "c", "h", "l", "o", "r", "i", "d", "e">>)
    @@ ("sulfate" :>
        <<"s", "u", "l", "f", "a", "t", "e">>)
    @@ ("sodium" :>
        <<"s", "o", "d", "i", "u", "m">>)
    @@ ("er" :>
        <<"e", "r">>)
    @@ ("xr" :>
        <<"x", "r">>)
    @@ ("cr" :>
        <<"c", "r">>)
    @@ ("sr" :>
        <<"s", "r">>)
    @@ ("Sertraline" :>
        <<"S", "e", "r", "t", "r", "a", "l", "i", "n", "e">>)
    @@ ("Lithium ER" :>
        <<"L", "i", "t", "h", "i", "u", "m", " ", "E", "R">>)
    @@ ("kava" :>
        <<"k", "a", "v", "a">>)
    @@ ("Sertraline HCL" :>
        <<"S", "e", "r", "t", "r", "a", "l", "i", "n", "e", " ", "H", "C", "L">>)
    @@ ("NAUSEA" :>
        <<"N", "A", "U", "S", "E", "A">>)
    @@ ("HEADACHE" :>
        <<"H", "E", "A", "D", "A", "C", "H", "E">>)
    @@ ("DEATH" :>
        <<"D", "E", "A", "T", "H">>)
    @@ ("DRUG INEFFECTIVE" :>
        <<"D", "R", "U", "G", " ", "I", "N", "E", "F", "F", "E", "C", "T",
          "I", "V", "E">>)
    @@ ("No data found" :>
        <<"N", "o", " ", "d", "a", "t", "a", " ", "f", "o", "u", "n", "d">>)
    @@ ("undefined" :>
        <<"u", "n", "d", "e", "f", "i", "n", "e", "d">>)
    @@ ("null" :>
        <<"n", "u", "l", "l">>)
    @@ ("[object Object]" :>
        <<"[", "o", "b", "j", "e", "c", "t", " ", "O", "b", "j", "e", "c",
          "t", "]">>)

\* -------------------------------------------------------------- strings
\* A string is the sequence of its characters; a text nothing looks into
\* (a description, the fixed parts of a message) is kept in one piece.
Lowers ==
    <<"a", "b", "c", "d", "e", "f", "g", "h", "i", "j", "k", "l", "m",
      "n", "o", "p", "q", "r", "s", "t", "u", "v", "w", "x", "y", "z">>
Uppers ==
    <<"A", "B", "C", "D", "E", "F", "G", "H", "I", "J", "K", "L", "M",
      "N", "O", "P", "Q", "R", "S", "T", "U", "V", "W", "X", "Y", "Z">>
\* The character U+00DF (German sharp s), which has no upper-case character.
SharpS == "U+00DF"

RECURSIVE Concat(_)
Concat(ss) == IF ss = <<>> THEN <<>> ELSE Head(ss) \o Concat(Tail(ss))

\* String.prototype.length: the pieces count with their own lengths.
RECURSIVE StrLen(_)
StrLen(str) == IF str = <<>> THEN 0 ELSE Len(Head(str)) + StrLen(Tail(str))

\* c.toLowerCase() of one character
LowerChar(c) ==
    IF \E i \in DOMAIN Uppers : Uppers[i] = c
    THEN Lowers[CHOOSE i \in DOMAIN Uppers : Uppers[i] = c]
    ELSE c

\* c.toUpperCase() of one character: a string, as U+00DF becomes "SS"
UpperChar(c) ==
    IF c = SharpS THEN <<"S", "S">>
    ELSE IF \E i \in DOMAIN Lowers : Lowers[i] = c
    THEN <<Uppers[CHOOSE i \in DOMAIN Lowers : Lowers[i] = c]>>
    ELSE <<c>>

toLowerCase(str) == [i \in DOMAIN str |-> LowerChar(str[i])]
toUpperCase(str) == Concat([i \in DOMAIN str |-> UpperChar(str[i])])

\* \s and \S of the regular expressions
IsSpace(c) == c = " "

\* toTitleCase(str) of the client: str.toLowerCase().replace(/(?:^|\s)\S/g,
\* c => c.toUpperCase())
toTitleCase(str) ==
    LET lower == toLowerCase(str) IN
    Concat([i \in DOMAIN lower |->
              IF ~IsSpace(lower[i]) /\ (i = 1 \/ IsSpace(lower[i - 1]))
              THEN UpperChar(lower[i])
              ELSE <<lower[i]>>])


\* toTitleCase(str) of server.js
serverToTitleCase(str) ==
    LET lower == toLowerCase(str) IN
    Concat([i \in DOMAIN lower |->
              IF ~IsSpace(lower[i]) /\ (i = 1 \/ IsSpace(lower[i - 1]))
              THEN UpperChar(lower[i])
              ELSE <<lower[i]>>])

\* str.trim()
RECURSIVE trimStart(_)
trimStart(str) ==
    IF str # <<>> /\ IsSpace(Head(str)) THEN trimStart(Tail(str)) ELSE str
RECURSIVE trimEnd(_)
trimEnd(str) ==
    IF str # <<>> /\ IsSpace(str[Len(str)])
    THEN trimEnd(SubSeq(str, 1, Len(str) - 1))
    ELSE str
trim(str) == trimEnd(trimStart(str))

\* term.replace(/s$/, "")
dropFinalS(term) ==
    IF term # <<>> /\ term[Len(term)] = "s"
    THEN SubSeq(term, 1, Len(term) - 1)
    ELSE term

StartsWith(str, prefix) ==
    Len(prefix) <= Len(str) /\ SubSeq(str, 1, Len(prefix)) = prefix

\* The alternatives of /\s*(hcl|hydrochloride|sulfate|sodium|er|xr|cr|sr)\s*/gi
SuffixAlternatives ==
    <<Chars["hcl"], Chars["hydrochloride"], Chars["sulfate"], Chars["sodium"],
     Chars["er"], Chars["xr"], Chars["cr"], Chars["sr"]>>

\* No match of the expression starts here.
NoMatch == <<"no match">>

\* One match of the expression at the start of str: what is left of str
\* behind it. The spaces before and after the alternative belong to the
\* match; the flag i makes the comparison ignore case.
MatchAt(str) ==
    LET rest == trimStart(str)
        hits == {i \in DOMAIN SuffixAlternatives :
                    StartsWith(toLowerCase(rest), SuffixAlternatives[i])}
        first == CHOOSE i \in hits : \A j \in hits : i <= j
    IN IF hits = {} THEN NoMatch
       ELSE trimStart(SubSeq(rest, Len(SuffixAlternatives[first]) + 1, Len(rest)))

\* medName.replace(/\s*(hcl|...|sr)\s*/gi, ""): every match, left to right,
\* wherever in the name it starts.
RECURSIVE removeSuffixes(_)
removeSuffixes(str) ==
    IF str = <<>> THEN <<>>
    ELSE IF MatchAt(str) # NoMatch THEN removeSuffixes(MatchAt(str))
    ELSE <<Head(str)>> \o removeSuffixes(Tail(str))

\* const simplified = medName.replace(...).trim()
simplify(medName) == trim(removeSuffixes(medName))

\* ------------------------------------------------------------- the tables
\* EXCLUDED_TERMS (the client's and the server's sets are the same)
EXCLUDED_TERMS ==
    {Chars["drug ineffective"], Chars["off label use"],
     Chars["product substitution issue"],
     Chars["therapeutic response unexpected"], Chars["drug interaction"],
     Chars["drug exposure during pregnancy"],
     Chars["intentional product misuse"],
     Chars["product use issue"], Chars["no adverse event"],
     Chars["condition aggravated"], Chars["death"],
     Chars["completed suicide"], Chars["self injury"],
     Chars["drug dependence"], Chars["drug abuse"],
     Chars["intentional overdose"], Chars["accidental overdose"],
     Chars["product quality issue"],
     Chars["product complaint"], Chars["therapeutic response decreased"],
     Chars["therapeutic response increased"], Chars["medication error"],
     Chars["wrong drug administered"], Chars["drug dose omission"],
     Chars["inappropriate schedule of drug administration"]}

\* DESCRIPTIONS of the client, for the terms of the model; a description is
\* a string kept in one piece.
DESCRIPTIONS ==
    (Chars["nausea"] :>
        <<"A queasy feeling in the stomach that may cause an urge to vomit.">>)
    @@ (Chars["tremor"] :>
        <<"Involuntary shaking or trembling, often in the hands.">>)
    @@ (Chars["diarrhea"] :>
        <<"Frequent loose or watery bowel movements.">>)
    @@ (Chars["vomiting"] :>
        <<"Forceful emptying of the stomach contents through the mouth.">>)
    @@ (Chars["dizziness"] :>
        <<"A sensation of lightheadedness or feeling unsteady on your feet.">>)
    @@ (Chars["fatigue"] :>
        <<"Persistent tiredness or exhaustion that doesn't improve with rest.">>)
    @@ (Chars["headache"] :>
        <<"Pain or pressure in the head, ranging from mild to severe.">>)
    @@ (Chars["weight increased"] :>
        <<"Noticeable gain in body weight since starting medication.">>)
    @@ (Chars["dry mouth"] :>
        <<"Reduced saliva production causing a parched feeling in the mouth.">>)
    @@ (Chars["tachycardia"] :>
        <<"Resting heart rate faster than normal, above ~100 beats per minute.">>)
    @@ (Chars["insomnia"] :>
        <<"Difficulty falling asleep, staying asleep, or waking too early.">>)
    @@ (Chars["decreased appetite"] :>
        <<"Reduced desire to eat or feeling full very quickly.">>)
    @@ (Chars["hyperhidrosis"] :>
        <<"Excessive sweating beyond what is needed to cool the body.">>)
    @@ (Chars["sexual dysfunction"] :>
        <<"Changes in sexual desire, arousal, or ability to reach climax.">>)
    @@ (Chars["somnolence"] :>
        <<"Excessive drowsiness or sleepiness during the day.">>)

\* DESCRIPTIONS of the server, for the terms the external service reports in
\* the model.
serverDESCRIPTIONS ==
    (Chars["nausea"] :>
        <<"A queasy feeling in the stomach that may cause an urge to vomit.">>)
    @@ (Chars["headache"] :>
        <<"Pain or pressure in the head, ranging from mild to severe.">>)

\* FALLBACK_SIDE_EFFECTS: of its 74 entries the model keeps two.
FALLBACK_SIDE_EFFECTS ==
    (Chars["lithium"] :>
        <<Chars["nausea"], Chars["tremor"], Chars["diarrhea"],
         Chars["vomiting"], Chars["dizziness"], Chars["fatigue"],
          Chars["headache"], Chars["weight increased"], Chars["dry mouth"],
          Chars["tachycardia"],
          Chars["polyuria"], Chars["thirst"]>>)
    @@ (Chars["sertraline"] :>
        <<Chars["nausea"], Chars["diarrhea"], Chars["insomnia"],
         Chars["dry mouth"], Chars["fatigue"],
          Chars["dizziness"], Chars["headache"], Chars["decreased appetite"],
          Chars["hyperhidrosis"],
          Chars["tremor"], Chars["sexual dysfunction"], Chars["somnolence"]>>)

\* ------------------------------------------------------ side-effect records
\* An element of a medication's sideEffects array, as JavaScript sees it: a
\* string (type "string", the string itself under name), an object (a name
\* or a description that is missing is the empty string: the code tests both
\* for truthiness only), null or undefined.
Obj(name, description) ==
    [type |-> "object", name |-> name, description |-> description]
Str(s) == [type |-> "string", name |-> s, description |-> <<>>]
JsNull == [type |-> "null", name |-> <<>>, description |-> <<>>]
JsUndefined == [type |-> "undefined", name |-> <<>>, description |-> <<>>]

\* String(item) of an element that is no string
String(item) ==
    CASE item.type = "null" -> Chars["null"]
      [] item.type = "undefined" -> Chars["undefined"]
      [] item.type = "object" -> Chars["[object Object]"]
      [] OTHER -> item.name

\* table[key] || otherwise
Lookup(table, key, otherwise) ==
    IF key \in DOMAIN table THEN table[key] ELSE otherwise

\* arr.slice(0, n)
Slice(arr, n) == SubSeq(arr, 1, IF Len(arr) < n THEN Len(arr) ELSE n)

\* JavaScript null, where an array is expected.
NoList == <<Null>>

\* What a function returned, or that it threw.
Returned(value) == [threw |-> FALSE, value |-> value]
Threw == [threw |-> TRUE, value |-> <<>>]

\* A response of the external service to a search: resp.ok and, of its
\* body, data.results as the reported terms in order.
FdaResponse(ok, results) == [ok |-> ok, results |-> results]


\* fetchSideEffectsFromFDA with .slice(0, 12) before .filter(...)
fetchSideEffectsFromFDACapFirst(medName, resp) ==
    IF ~resp.ok THEN Threw
    ELSE IF resp.results = <<>> THEN Threw
    ELSE LET terms == SelectSeq(Slice([i \in DOMAIN resp.results |->
                                       toLowerCase(resp.results[i])], 12),
                                LAMBDA term : term \notin EXCLUDED_TERMS)
         IN Returned([i \in DOMAIN terms |->
                Obj(toTitleCase(terms[i]),
                    Lookup(DESCRIPTIONS, terms[i],
                           Lookup(DESCRIPTIONS, dropFinalS(terms[i]), <<>>)))])

\* fetchSideEffectsFromFDA(medName), given the response to its fetch
fetchSideEffectsFromFDA(medName, resp) ==
    IF ~resp.ok THEN Threw
    ELSE IF resp.results = <<>> THEN Threw
    ELSE LET terms == Slice(SelectSeq([i \in DOMAIN resp.results |->
                                       toLowerCase(resp.results[i])],
                                   LAMBDA term : term \notin EXCLUDED_TERMS), 12)
         IN Returned([i \in DOMAIN terms |->
                Obj(toTitleCase(terms[i]),
                    Lookup(DESCRIPTIONS, terms[i],
                           Lookup(DESCRIPTIONS, dropFinalS(terms[i]), <<>>)))])

\* buildFromFallback without the title case
buildFromFallbackRaw(medName) ==
    LET key == trim(toLowerCase(medName)) IN
    IF key \notin DOMAIN FALLBACK_SIDE_EFFECTS THEN NoList
    ELSE LET terms == FALLBACK_SIDE_EFFECTS[key] IN
         [i \in DOMAIN terms |->
            Obj(terms[i], Lookup(DESCRIPTIONS, terms[i], <<>>))]

\* buildFromFallback(medName): null (NoList) for a name the table lacks
buildFromFallback(medName) ==
    LET key == trim(toLowerCase(medName)) IN
    IF key \notin DOMAIN FALLBACK_SIDE_EFFECTS THEN NoList
    ELSE LET terms == FALLBACK_SIDE_EFFECTS[key] IN
         [i \in DOMAIN terms |->
            Obj(toTitleCase(terms[i]), Lookup(DESCRIPTIONS, terms[i], <<>>))]

\* normalizeSideEffects(arr), of an array
normalizeSideEffects(arr) ==
    SelectSeq([i \in DOMAIN arr |->
              IF arr[i].type = "string"
              THEN Obj(toTitleCase(arr[i].name),
                       Lookup(DESCRIPTIONS, toLowerCase(arr[i].name), <<>>))
              ELSE IF arr[i].type = "object" /\ arr[i].name # <<>>
              THEN Obj(arr[i].name, arr[i].description)
              ELSE Obj(String(arr[i]), <<>>)],
           LAMBDA item : /\ item.name # <<>>
                         /\ item.name # Chars["undefined"]
                         /\ item.name # Chars["null"])

\* The last return of fetchSideEffects
NoDataFound(medName) ==
    <<Obj(Chars["No data found"],
          <<"Could not find side effects for \"">> \o medName
              \o <<"\". Try the generic drug name.">>)>>

\* ---------------------------------------------- POST /api/side-effects
\* queryFDA(name) of the route, given the response to its fetch
queryFDA(name, resp) ==
    IF ~resp.ok THEN Threw
    ELSE IF resp.results = <<>> THEN Threw
    ELSE LET terms == Slice(SelectSeq([i \in DOMAIN resp.results |->
                                       toLowerCase(resp.results[i])],
                                   LAMBDA term : term \notin EXCLUDED_TERMS), 12)
         IN Returned([i \in DOMAIN terms |->
                Obj(toTitleCase(terms[i]),
                    Lookup(serverDESCRIPTIONS, terms[i],
                           Lookup(serverDESCRIPTIONS, dropFinalS(terms[i]), <<>>)))])

\* The last res.json of the route
serverNoDataFound(medName) ==
    <<Obj(Chars["No data found"],
          <<"No adverse event reports for \"">> \o medName
              \o <<"\". Try the generic name.">>)>>

\* app.post('/api/side-effects'): the response to a body { medication },
\* given the responses of the external service to the first and to the
\* second queryFDA.
sideEffectsRoute(medication, first, second) ==
    IF trim(medication) = <<>>
    THEN [status |-> 400, sideEffects |-> <<>>]
    ELSE LET medName == trim(medication)
             simplified == simplify(medName)
         IN IF ~queryFDA(medName, first).threw
            THEN [status |-> 200, sideEffects |-> queryFDA(medName, first).value]
            ELSE IF simplified # medName /\ ~queryFDA(simplified, second).threw
            THEN [status |-> 200,
                  sideEffects |-> queryFDA(simplified, second).value]
            ELSE [status |-> 200, sideEffects |-> serverNoDataFound(medName)]

\* ------------------------------------------------------ the aggregated view
\* A date string is the number of its day; the empty string is 0, which is
\* falsy and not above any date.

\* activeMeds: state.medications.filter(m => !m.endDate || m.endDate >=
\* selectedDate)
ActiveMeds(medicationsV, date) ==
    SelectSeq(medicationsV, LAMBDA m : m.endDate = 0 \/ m.endDate >= date)

\* const name = typeof se === "string" ? se : (se && se.name ? se.name :
\* String(se))
EffectName(se) ==
    IF se.type = "string" THEN se.name
    ELSE IF se.type = "object" /\ se.name # <<>> THEN se.name
    ELSE String(se)

\* const desc = typeof se === "object" && se !== null ? (se.description ||
\* "") : ""
EffectDesc(se) == IF se.type = "object" THEN se.description ELSE <<>>

\* The callback of the inner forEach, for the record se of the medication
\* named medName. map is the object map as the sequence of its entries in
\* the order of their creation.
AddRecord(map, medName, se) ==
    LET name == EffectName(se)
        desc == EffectDesc(se)
        Push(entry) ==
            [entry EXCEPT !.meds = Append(@, medName),
                          !.count = @ + 1,
                          !.description =
                              IF desc # <<>> /\ StrLen(desc) > StrLen(@)
                              THEN desc ELSE @]
    IN IF name = <<>> \/ name = Chars["undefined"] THEN map
       ELSE IF \E i \in DOMAIN map : map[i].name = name
       THEN [i \in DOMAIN map |->
                IF map[i].name = name THEN Push(map[i]) ELSE map[i]]
       ELSE Append(map, Push([name |-> name, meds |-> <<>>, count |-> 0,
                              description |-> desc]))

\* (m.sideEffects || []).forEach(se => ...)
RECURSIVE AddRecords(_, _, _)
AddRecords(map, medName, sideEffects) ==
    IF sideEffects = <<>> THEN map
    ELSE AddRecords(AddRecord(map, medName, Head(sideEffects)), medName,
                    Tail(sideEffects))

\* activeMeds.forEach(m => ...)
RECURSIVE AddMeds(_, _)
AddMeds(map, meds) ==
    IF meds = <<>> THEN map
    ELSE AddMeds(AddRecords(map, Head(meds).name, Head(meds).sideEffects),
                 Tail(meds))

\* a.localeCompare(b): letters in alphabetical order whatever their case,
\* the space and the brackets before the letters; of two strings equal but
\* for case, the one with the lower-case letter at the first difference is
\* first.
CollationOrder == <<" ", "[", "]">> \o Lowers
PrimaryKey(c) ==
    CHOOSE i \in DOMAIN CollationOrder : CollationOrder[i] = LowerChar(c)

RECURSIVE comparePrimary(_, _)
comparePrimary(a, b) ==
    IF a = <<>> THEN (IF b = <<>> THEN 0 ELSE -1)
    ELSE IF b = <<>> THEN 1
    ELSE LET ka == PrimaryKey(Head(a))
             kb == PrimaryKey(Head(b))
         IN IF ka < kb THEN -1
            ELSE IF ka > kb THEN 1
            ELSE comparePrimary(Tail(a), Tail(b))

RECURSIVE compareCase(_, _)
compareCase(a, b) ==
    IF a = <<>> \/ b = <<>> THEN 0
    ELSE IF Head(a) = Head(b) THEN compareCase(Tail(a), Tail(b))
    ELSE IF Head(a) = LowerChar(Head(a)) THEN -1
    ELSE 1

localeCompare(a, b) ==
    LET primary == comparePrimary(a, b) IN
    IF primary # 0 THEN primary ELSE compareCase(a, b)

\* The comparison that puts the lower count first
compareEntriesAscending(a, b) ==
    IF b.count # a.count THEN a.count - b.count
    ELSE localeCompare(a.name, b.name)

\* The function passed to sort: (a, b) => { if (b[1].count !== a[1].count)
\* return b[1].count - a[1].count; return a[0].localeCompare(b[0]); }
compareEntries(a, b) ==
    IF b.count # a.count THEN b.count - a.count
    ELSE localeCompare(a.name, b.name)

\* Array.prototype.sort, which is stable: the entries one by one, each
\* behind the entries already placed that do not compare above it.
RECURSIVE Sort(_, _)
Sort(sorted, entries) ==
    IF entries = <<>> THEN sorted
    ELSE LET e == Head(entries)
             k == Cardinality({i \in DOMAIN sorted :
                                  compareEntries(sorted[i], e) <= 0})
         IN Sort(SubSeq(sorted, 1, k) \o <<e>> \o SubSeq(sorted, k + 1, Len(sorted)),
                 Tail(entries))

\* allSideEffects: Object.entries(map).sort(...) of the map built over
\* activeMeds
AllSideEffects(activeMedsV) == Sort(<<>>, AddMeds(<<>>, activeMedsV))


\* ------------------------------------------------------------- severities
\* An object is a function from its own keys; {} is the empty one.
EmptyObject == <<>>

\* p.sideEffectSeverities[selectedDate] || {}
SeveritiesOn(p, date) ==
    IF date \in DOMAIN p.sideEffectSeverities
    THEN p.sideEffectSeverities[date]
    ELSE EmptyObject

\* The updater of setSeverity without the spread of the date's severities
setSeverityOfDateAlone(p, date, effect, val) ==
    [sideEffectSeverities |->
        (date :> (effect :> val)) @@ p.sideEffectSeverities]

\* The updater of setSeverity(effect, val): p => ({ sideEffectSeverities:
\* { ...p.sideEffectSeverities, [selectedDate]: { ...(p.sideEffectSeverities
\* [selectedDate] || {}), [effect]: val } } }), with the selectedDate of the
\* render
setSeverity(p, date, effect, val) ==
    [sideEffectSeverities |->
        (date :> ((effect :> val) @@ SeveritiesOn(p, date)))
            @@ p.sideEffectSeverities]

VARIABLES
    state,          \* useState(DEFAULT_STATE)
    loaded,         \* useState(false)
    syncing,        \* useState(false)
    initialLoad,    \* useRef(true)
    saveTimer,      \* useRef(null): the id of the last debounce timer, 0 for null
    timers,         \* the pending setTimeout callbacks
    timerSeq,       \* the last timer id handed out
    localStorage,   \* the item "wellness-tracker-data"
    load,           \* the GET /api/data of the load effect
    puts,           \* the PUT /api/data requests in flight
    putSeq,         \* the last request id handed out
    DATA_FILE,      \* data/patient.json
    BACKUP_FILE,    \* data/patient.backup.json
    nMut,           \* history: mutations so far
    sinceMut,       \* history: ticks since the last mutation
    mutsSincePush,  \* history: mutations since the last debounced push was issued
    lastPush,       \* history: the last debounced push issued
    hist,           \* history: what the load and the pushes met
    wlog,           \* history: the last three events of the store
    api,            \* the requests the server's middleware chain has answered
    rsv,            \* a call of fetchSideEffects: where it is and what it met
    medications,    \* state.medications
    selectedDate,   \* useState(today())
    activeMeds,     \* the value of useMemo(..., [state.medications, selectedDate])
    allSideEffects, \* the value of useMemo(..., [activeMeds])
    adding,         \* the addMedication waiting for fetchSideEffects
    medSeq,         \* the last medication id handed out
    sideEffectSeverities, \* state.sideEffectSeverities
    call            \* a call of a pure function: its argument, what it returned

vars == <<state, loaded, syncing, initialLoad, saveTimer, timers, timerSeq,
          localStorage, load, puts, putSeq, DATA_FILE, BACKUP_FILE,
          nMut, sinceMut, mutsSincePush, lastPush, hist, wlog, api, rsv,
          medications, selectedDate, activeMeds, allSideEffects, adding, medSeq,
          sideEffectSeverities, call>>

clientVars == <<state, loaded, syncing, initialLoad, saveTimer, timers, timerSeq>>
storeVars == <<DATA_FILE, BACKUP_FILE, wlog>>
auditVars == <<nMut, sinceMut, mutsSincePush, lastPush>>
\* The Sync Client, its load and its pushes.
syncVars == <<clientVars, localStorage, load, puts, putSeq, auditVars, hist>>
\* What the Sync Client and its pushes leave alone.
medVars == <<medications, selectedDate, activeMeds, allSideEffects, adding, medSeq>>
sevVars == <<sideEffectSeverities, call>>
extVars == <<api, rsv, medVars, sevVars>>

\* The hook and ref values the auto-save effect reads and writes.
Client ==
    [initialLoad |-> initialLoad, saveTimer |-> saveTimer, syncing |-> syncing,
     timers |-> timers, timerSeq |-> timerSeq]

SetClient(c) ==
    /\ initialLoad' = c.initialLoad
    /\ saveTimer' = c.saveTimer
    /\ syncing' = c.syncing
    /\ timers' = c.timers
    /\ timerSeq' = c.timerSeq

Cap(n, m) == IF n > m THEN m ELSE n

\* The store's event log keeps the last three events.
Logged(e) == IF Len(wlog) < 3 THEN Append(wlog, e) ELSE Append(Tail(wlog), e)

SyncInit ==
    /\ state = DEFAULT_STATE
    /\ loaded = FALSE
    /\ syncing = FALSE
    /\ initialLoad = TRUE
    /\ saveTimer = 0
    /\ timers = {}
    /\ timerSeq = 0
    /\ localStorage \in {NoItem, Stringify(LegacyDoc), Truncate(Stringify(LegacyDoc))}
    /\ load = [stage |-> "sent", body |-> Null, data |-> Null]
    /\ puts = {}
    /\ putSeq = 0
    /\ DATA_FILE \in {NoFile, Stringify(StoredDoc)}
    /\ BACKUP_FILE = NoFile
    /\ nMut = 0
    /\ sinceMut = 0
    /\ mutsSincePush = 0
    /\ lastPush = [n |-> 0, doc |-> Null, state |-> Null, since |-> 0, muts |-> 0]
    /\ hist = [legacy |-> localStorage, getSaw |-> "none", fetchOk |-> FALSE,
               migrate |-> "none", lost |-> FALSE, apiPuts |-> 0]
    /\ wlog = <<>>

\* No request has reached the middleware chain.
ApiIdle == api = [n |-> 0, good |-> 0, method |-> "none", key |-> "none", status |-> 0]

\* fetchSideEffects has not been called.
ResolverIdle ==
    rsv = [pc |-> "idle", medName |-> <<>>, inflight |-> {}, tried |-> <<>>,
           failed |-> {}, result |-> NoList, endpoint |-> NoList]

\* No medications: DEFAULT_STATE.medications, and today selected.
MedsIdle ==
    /\ medications = <<>>
    /\ selectedDate = Today
    /\ activeMeds = <<>>
    /\ allSideEffects = <<>>
    /\ adding = [loading |-> FALSE, medications |-> <<>>, name |-> <<>>,
                 endDate |-> 0]
    /\ medSeq = 0

\* No severities: DEFAULT_STATE.sideEffectSeverities.
NoSeverities == <<>>
\* No function is being called.
CallIdle == call = [fn |-> "none", arg |-> <<>>, pc |-> "idle", value |-> <<>>]
SeveritiesIdle == sideEffectSeverities = NoSeverities /\ CallIdle

Init == SyncInit /\ ApiIdle /\ ResolverIdle /\ MedsIdle /\ SeveritiesIdle

\* ------------------------------------------------------------- the load
\* app.get('/api/data'): the server answers the load request.
ServerGet ==
    /\ load.stage = "sent"
    /\ load' = [load EXCEPT !.stage = "answered",
                            !.body = readPatientData(DATA_FILE, BACKUP_FILE)]
    /\ hist' = [hist EXCEPT !.getSaw = IF DATA_FILE = NoFile THEN "nofile" ELSE "file"]
    /\ UNCHANGED <<extVars, clientVars, localStorage, puts, putSeq, storeVars, auditVars>>

\* The fetch of loadFromServer settles (ok: the response arrived; otherwise
\* the fetch rejected) and loadFromServer runs to its return.
LoadSettle(ok) ==
    /\ load.stage \in {"sent", "answered"}
    /\ ok => load.stage = "answered"
    /\ LET r == loadFromServer(ok, load.body, localStorage) IN
        /\ load' = [load EXCEPT !.stage = "resolved", !.data = r.data]
        /\ localStorage' = r.storage
        /\ IF r.push # Null
           THEN /\ puts' = puts \cup {[id |-> putSeq + 1, kind |-> "migrate",
                                       doc |-> r.push, stage |-> "sent", status |-> 0]}
                /\ putSeq' = putSeq + 1
                /\ hist' = [hist EXCEPT !.fetchOk = ok, !.migrate = "sent"]
           ELSE /\ UNCHANGED <<puts, putSeq>>
                /\ hist' = [hist EXCEPT !.fetchOk = ok]
    /\ UNCHANGED <<extVars, clientVars, storeVars, auditVars>>

\* The then callback with setLoaded(true) inside the if (data) branch
LoadThenOnlyWithData(batched) ==
    /\ load.stage = "resolved"
    /\ load' = [load EXCEPT !.stage = "done"]
    /\ state' = IF load.data # Null THEN load.data ELSE state
    /\ loaded' = (load.data # Null)
    /\ SetClient(AutoSaveEffect(state', loaded', Client))
    /\ UNCHANGED <<extVars, localStorage, puts, putSeq, storeVars, auditVars, hist>>

\* loadFromServer().then(data => { if (data) setState(data); setLoaded(true) }),
\* and the auto-save effect of the renders that follow. batched: React renders
\* once for both setters; otherwise once after each.
LoadThen(batched) ==
    /\ load.stage = "resolved"
    /\ load' = [load EXCEPT !.stage = "done"]
    /\ state' = IF load.data # Null THEN load.data ELSE state
    /\ loaded' = TRUE
    /\ LET first == IF batched \/ load.data = Null
                    THEN Client
                    ELSE AutoSaveEffect(state', loaded, Client)
       IN SetClient(AutoSaveEffect(state', TRUE, first))
    /\ UNCHANGED <<extVars, localStorage, puts, putSeq, storeVars, auditVars, hist>>

\* ------------------------------------------------------------- mutations
\* setNotes(val): update(() => ({ notes: val })), from the rendered UI (the
\* render reads state.dailyAssessments[selectedDate]), then the effect.
Mutate ==
    /\ loaded
    /\ Truthy(state, "dailyAssessments")
    /\ nMut < MaxMut
    /\ nMut' = nMut + 1
    /\ state' = update(state, [notes |-> 10 + nMut'])
    /\ SetClient(AutoSaveEffect(state', loaded, Client))
    /\ sinceMut' = 0
    /\ mutsSincePush' = mutsSincePush + 1
    /\ UNCHANGED <<extVars, loaded, localStorage, load, puts, putSeq, storeVars, lastPush, hist>>

\* ------------------------------------------------------------------ time
\* 300 ms pass; no pending timer is due.
Tick ==
    /\ timers # {}
    /\ \A t \in timers : t.rem > 0
    /\ timers' = {[t EXCEPT !.rem = @ - 1] : t \in timers}
    /\ sinceMut' = Cap(sinceMut + 1, DebounceTicks + 1)
    /\ UNCHANGED <<extVars, state, loaded, syncing, initialLoad, saveTimer, timerSeq,
                   localStorage, load, puts, putSeq, storeVars,
                   nMut, mutsSincePush, lastPush, hist>>

\* The debounce timer fires: saveToServer(state) of the render that set it.
SaveTimerFire(t) ==
    /\ t \in timers /\ t.kind = "save" /\ t.rem = 0
    /\ timers' = timers \ {t}
    /\ puts' = puts \cup {[id |-> putSeq + 1, kind |-> "debounce", doc |-> t.doc,
                           stage |-> "sent", status |-> 0]}
    /\ putSeq' = putSeq + 1
    /\ lastPush' = [n |-> lastPush.n + 1, doc |-> t.doc, state |-> state,
                    since |-> sinceMut, muts |-> mutsSincePush]
    /\ mutsSincePush' = 0
    /\ UNCHANGED <<extVars, state, loaded, syncing, initialLoad, saveTimer, timerSeq,
                   localStorage, load, storeVars, nMut, sinceMut, hist>>

\* setTimeout(() => setSyncing(false), 300) fires.
FlickerTimerFire(t) ==
    /\ t \in timers /\ t.kind = "flicker" /\ t.rem = 0
    /\ timers' = timers \ {t}
    /\ syncing' = FALSE
    /\ UNCHANGED <<extVars, state, loaded, initialLoad, saveTimer, timerSeq,
                   localStorage, load, puts, putSeq, storeVars, auditVars, hist>>

\* ---------------------------------------------------------------- pushes
\* app.put('/api/data') handles a request that reached the server.
ServerPut(p, backupOk, writeOk) ==
    /\ p \in puts /\ p.stage = "sent"
    /\ LET status == PutStatus(p.doc, writeOk)
           w == writePatientData(DATA_FILE, BACKUP_FILE, p.doc, backupOk)
       IN
        /\ puts' = (puts \ {p}) \cup {[p EXCEPT !.stage = "answered", !.status = status]}
        /\ IF status = 400
           THEN UNCHANGED storeVars
           ELSE /\ BACKUP_FILE' = w.BACKUP_FILE
                /\ DATA_FILE' = IF writeOk THEN w.DATA_FILE ELSE DATA_FILE
                /\ wlog' = Logged([op |-> IF writeOk THEN "write" ELSE "failed",
                                   doc |-> p.doc,
                                   backedUp |-> DATA_FILE # NoFile /\ backupOk])
        /\ hist' = IF p.kind = "migrate" /\ status = 200
                   THEN [hist EXCEPT !.migrate = "ok"]
                   ELSE hist
    /\ UNCHANGED <<extVars, clientVars, localStorage, load, putSeq, auditVars>>

\* saveToServer with a fetch that is issued again when it failed
PutSettleRetry(p, ok) ==
    /\ p \in puts
    /\ ok => p.stage = "answered"
    /\ puts' = IF p.stage = "sent" \/ p.status # 200
               THEN (puts \ {p}) \cup {[p EXCEPT !.id = putSeq + 1, !.stage = "sent",
                                                 !.status = 0]}
               ELSE puts \ {p}
    /\ putSeq' = IF p.stage = "sent" \/ p.status # 200 THEN putSeq + 1 ELSE putSeq
    /\ IF p.kind = "debounce"
       THEN /\ timers' = timers \cup {[id |-> timerSeq + 1, kind |-> "flicker",
                                       rem |-> FlickerTicks, doc |-> Null]}
            /\ timerSeq' = timerSeq + 1
       ELSE UNCHANGED <<timers, timerSeq>>
    /\ hist' = [hist EXCEPT
                  !.lost = @ \/ (p.kind = "debounce" /\ (p.stage = "sent" \/ p.status # 200)),
                  !.migrate = IF p.kind = "migrate" /\ (p.stage = "sent" \/ p.status # 200)
                              THEN "failed" ELSE @]
    /\ UNCHANGED <<extVars, state, loaded, syncing, initialLoad, saveTimer,
                   localStorage, load, storeVars, auditVars>>

\* The fetch of a push settles: the response arrived (ok), or the fetch
\* rejected. saveToServer resolves either way; the auto-save effect's then
\* starts the 300 ms timer.
PutSettle(p, ok) ==
    /\ p \in puts
    /\ ok => p.stage = "answered"
    /\ puts' = puts \ {p}
    /\ IF p.kind = "debounce"
       THEN /\ timers' = timers \cup {[id |-> timerSeq + 1, kind |-> "flicker",
                                       rem |-> FlickerTicks, doc |-> Null]}
            /\ timerSeq' = timerSeq + 1
       ELSE UNCHANGED <<timers, timerSeq>>
    /\ hist' = [hist EXCEPT
                  !.lost = @ \/ (p.kind = "debounce" /\ (p.stage = "sent" \/ p.status # 200)),
                  !.migrate = IF p.kind = "migrate" /\ (p.stage = "sent" \/ p.status # 200)
                              THEN "failed" ELSE @]
    /\ UNCHANGED <<extVars, state, loaded, syncing, initialLoad, saveTimer,
                   localStorage, load, putSeq, storeVars, auditVars>>

\* A PUT /api/data from outside the auto-save effect.
ApiPut(body) ==
    /\ hist.apiPuts < MaxApiPuts
    /\ puts' = puts \cup {[id |-> putSeq + 1, kind |-> "api", doc |-> body,
                           stage |-> "sent", status |-> 0]}
    /\ putSeq' = putSeq + 1
    /\ hist' = [hist EXCEPT !.apiPuts = @ + 1]
    /\ UNCHANGED <<extVars, clientVars, localStorage, load, storeVars, auditVars>>

\* The primary file is damaged on disk.
Corrupt ==
    /\ DATA_FILE # NoFile /\ IsJson(DATA_FILE)
    /\ DATA_FILE' = Truncate(DATA_FILE)
    /\ wlog' = Logged([op |-> "corrupt", doc |-> Null, backedUp |-> FALSE])
    /\ UNCHANGED <<extVars, clientVars, localStorage, load, puts, putSeq, BACKUP_FILE,
                   auditVars, hist>>

\* The Sync Client with the store behind it; the store's disk works (its
\* failures are StoreSpec's).
Next ==
    \/ ServerGet
    \/ \E ok \in BOOLEAN : LoadSettle(ok)
    \/ \E batched \in BOOLEAN : LoadThen(batched)
    \/ Mutate
    \/ Tick
    \/ \E t \in timers : SaveTimerFire(t)
    \/ \E t \in timers : FlickerTimerFire(t)
    \/ \E p \in puts : ServerPut(p, TRUE, TRUE)
    \/ \E p \in puts : \E ok \in BOOLEAN : PutSettle(p, ok)

Spec == Init /\ [][Next]_vars

\* The then callback of the load is a microtask of a promise that has
\* resolved: the event loop runs it.
FairSpec == Spec /\ WF_vars(\E batched \in BOOLEAN : LoadThen(batched))

\* The Persistent Store under the requests of any holder of the key, and a
\* disk that may damage the primary file.
StoreNext ==
    \/ ServerGet
    \/ \E body \in ApiBodies : ApiPut(body)
    \/ \E p \in puts : \E backupOk, writeOk \in BOOLEAN : ServerPut(p, backupOk, writeOk)
    \/ \E p \in puts : \E ok \in BOOLEAN : PutSettle(p, ok)
    \/ Corrupt

StoreSpec == Init /\ [][StoreNext]_vars


\* The Sync Client with a store whose writeFile may fail (the PUT is then
\* answered 500) and a network that may lose a request.
PushNext ==
    \/ ServerGet
    \/ \E ok \in BOOLEAN : LoadSettle(ok)
    \/ \E batched \in BOOLEAN : LoadThen(batched)
    \/ nMut < MaxEdits /\ Mutate
    \/ Tick
    \/ \E t \in timers : SaveTimerFire(t)
    \/ \E t \in timers : FlickerTimerFire(t)
    \/ \E p \in puts : \E writeOk \in BOOLEAN : ServerPut(p, TRUE, writeOk)
    \/ \E p \in puts : \E ok \in BOOLEAN : PutSettle(p, ok)

\* A client that starts with a legacy document in localStorage, in front of
\* a store that holds a document.
PushInit ==
    /\ SyncInit
    /\ localStorage = Stringify(LegacyDoc)
    /\ DATA_FILE = Stringify(StoredDoc)
    /\ ApiIdle /\ ResolverIdle /\ MedsIdle /\ SeveritiesIdle

PushSpec == PushInit /\ [][PushNext]_vars


\* handleImport(e) of the History tab, which is rendered once loaded: the
\* file's document passes the check of line 1122 and is PUT to the store;
\* the client's state is left as it is.
HandleImport(data) ==
    /\ loaded
    /\ data # Null /\ Truthy(data, "dailyAssessments")
    /\ ApiPut(data)

\* The Sync Client, its store and the imports of its user.
ImportNext ==
    \/ ServerGet
    \/ \E ok \in BOOLEAN : LoadSettle(ok)
    \/ \E batched \in BOOLEAN : LoadThen(batched)
    \/ nMut < MaxEdits /\ Mutate
    \/ Tick
    \/ \E t \in timers : SaveTimerFire(t)
    \/ \E t \in timers : FlickerTimerFire(t)
    \/ \E p \in puts : ServerPut(p, TRUE, TRUE)
    \/ \E p \in puts : \E ok \in BOOLEAN : PutSettle(p, ok)
    \/ \E data \in ApiBodies : HandleImport(data)

\* A client without a legacy item, in front of a store that holds a
\* document.
ImportInit ==
    /\ SyncInit
    /\ localStorage = NoItem
    /\ DATA_FILE = Stringify(StoredDoc)
    /\ ApiIdle /\ ResolverIdle /\ MedsIdle /\ SeveritiesIdle

ImportSpec == ImportInit /\ [][ImportNext]_vars

\* ------------------------------------------------------ the middleware chain
\* process.env.API_KEY; the server exits at startup when it is not set.
API_KEY == "key"
\* req.headers['x-api-key'] of a request without the header
NoKey == "undefined"
RequestKeys == {API_KEY, "guess", NoKey}
\* A JSON request body that does not parse.
Malformed == [malformed |-> 0]
Methods == {"GET", "PUT", "OPTIONS"}

\* app.use(cors({ origin, methods, allowedHeaders })): the middleware answers
\* a preflight itself; 0 is next().
cors(method) == IF method = "OPTIONS" THEN 204 ELSE 0

\* app.use(express.json({ limit: '10mb' })): a body that does not parse is
\* answered 400 by the error handler; 0 is next().
expressJson(body) == IF body = Malformed THEN 400 ELSE 0

\* app.use('/api', ...): the API key check; 0 is next().
apiKeyCheck(key) == IF key # API_KEY THEN 403 ELSE 0

\* The middlewares in the order of their app.use calls: the status of the
\* first that answers, 0 when the request reaches its route.
Middlewares(method, key, body) ==
    IF cors(method) # 0 THEN cors(method)
    ELSE IF expressJson(body) # 0 THEN expressJson(body)
    ELSE apiKeyCheck(key)

\* A request to /api/data passes the middleware chain and, if none answers
\* it, its route: app.get('/api/data') or app.put('/api/data').
ApiRequest(method, key, body, backupOk, writeOk) ==
    /\ api.n < MaxReq
    /\ LET early == Middlewares(method, key, body)
           status == IF early # 0 THEN early
                     ELSE IF method = "GET" THEN 200
                     ELSE PutStatus(body, writeOk)
           w == writePatientData(DATA_FILE, BACKUP_FILE, body, backupOk)
       IN
        /\ api' = [n |-> api.n + 1,
                   good |-> api.good + (IF key = API_KEY THEN 1 ELSE 0),
                   method |-> method, key |-> key, status |-> status]
        /\ IF early = 0 /\ method = "PUT" /\ status # 400
           THEN /\ BACKUP_FILE' = w.BACKUP_FILE
                /\ DATA_FILE' = IF writeOk THEN w.DATA_FILE ELSE DATA_FILE
                /\ wlog' = Logged([op |-> IF writeOk THEN "write" ELSE "failed",
                                   doc |-> body,
                                   backedUp |-> DATA_FILE # NoFile /\ backupOk])
           ELSE UNCHANGED storeVars
    /\ UNCHANGED <<syncVars, rsv, medVars, sevVars>>

AuthNext ==
    \E method \in Methods : \E key \in RequestKeys :
        \E body \in ApiBodies \cup {Malformed} :
            \E backupOk, writeOk \in BOOLEAN :
                ApiRequest(method, key, body, backupOk, writeOk)

\* The server under the requests of anyone who can reach it.
AuthSpec == Init /\ [][AuthNext]_vars

\* ------------------------------------------------ the Side-Effect Resolver
\* The names addMedication passes (form.name.trim()): a key of the table, a
\* key in other letters, keys with a suffix, and a name the table lacks.
MedNames == {Chars["lithium"], Chars["Sertraline"], Chars["Lithium ER"],
    Chars["Sertraline HCL"], Chars["kava"]}

\* What the external service may answer to a search: an error status, no
\* results, only excluded terms, and reportable terms among excluded ones.
FdaResponses ==
    {FdaResponse(FALSE, <<>>),
     FdaResponse(TRUE, <<>>),
     FdaResponse(TRUE, <<Chars["DRUG INEFFECTIVE"], Chars["DEATH"]>>),
     FdaResponse(TRUE, <<Chars["HEADACHE"]>>),
     FdaResponse(TRUE, <<Chars["NAUSEA"], Chars["DEATH"], Chars["HEADACHE"]>>)}

\* How the fetch of the proxy may settle: rejected, answered with an error
\* status, or answered by the route.
ProxyResponses(medName) ==
    {[arrived |-> FALSE, status |-> 0, sideEffects |-> <<>>],
     [arrived |-> TRUE, status |-> 500, sideEffects |-> <<>>]}
    \cup {[arrived |-> TRUE,
           status |-> sideEffectsRoute(medName, first, second).status,
           sideEffects |-> sideEffectsRoute(medName, first, second).sideEffects] :
             first \in FdaResponses, second \in FdaResponses}

\* fetchSideEffects returns value, which it has from source.
Return(r, source, value) ==
    [r EXCEPT !.pc = "done", !.inflight = {}, !.result = value,
              !.tried = IF source \in {"table", "sentinel"}
                        THEN r.tried \o (IF source = "table"
                                         THEN <<"table">>
                                         ELSE <<"table", "sentinel">>)
                        ELSE r.tried]

\* fetchSideEffects sends the request of the next source.
Request(r, source) ==
    [r EXCEPT !.pc = source, !.inflight = r.inflight \cup {source},
              !.tried = Append(r.tried, source)]

\* The source in flight has settled as a failure.
Failed(r) == [r EXCEPT !.failed = r.failed \cup r.inflight, !.inflight = {}]

\* fetchSideEffects from "Built-in fallback for common medications" on
Fallback(r) ==
    LET simplified == simplify(r.medName)
        fallback == IF buildFromFallback(r.medName) # NoList
                    THEN buildFromFallback(r.medName)
                    ELSE buildFromFallback(simplified)
    IN IF fallback # NoList
       THEN Return(r, "table", fallback)
       ELSE Return([r EXCEPT !.failed = r.failed \cup {"table"}], "sentinel",
                   NoDataFound(r.medName))

\* fetchSideEffects(medName) up to the fetch of the proxy
FetchSideEffects(medName) ==
    /\ rsv.pc = "idle"
    /\ rsv' = Request([rsv EXCEPT !.medName = medName], "proxy")
    /\ UNCHANGED <<syncVars, storeVars, api, medVars, sevVars>>

\* The proxy tier that, on a failure, sends both lookups of the external
\* service at once
ProxySettleBothLookups(resp) ==
    /\ rsv.pc = "proxy"
    /\ rsv' = IF resp.arrived /\ resp.status = 200 /\ Len(resp.sideEffects) > 0
              THEN Return(rsv, "proxy", normalizeSideEffects(resp.sideEffects))
              ELSE Request(Request(Failed(rsv), "direct"), "simplified")
    /\ UNCHANGED <<syncVars, storeVars, api, medVars, sevVars>>

\* The fetch of the proxy settles; fetchSideEffects runs to its return or to
\* the fetch of the external service.
ProxySettle(resp) ==
    /\ rsv.pc = "proxy"
    /\ LET seen == [rsv EXCEPT !.endpoint = IF resp.arrived /\ resp.status = 200
                                            THEN resp.sideEffects ELSE @]
       IN rsv' = IF resp.arrived /\ resp.status = 200 /\ Len(resp.sideEffects) > 0
                 THEN Return(seen, "proxy", normalizeSideEffects(resp.sideEffects))
                 ELSE Request(Failed(seen), "direct")
    /\ UNCHANGED <<syncVars, storeVars, api, medVars, sevVars>>

\* The fetch of fetchSideEffectsFromFDA(medName) settles; fetchSideEffects
\* runs to its return or to the fetch for the simplified name.
DirectSettle(resp) ==
    /\ rsv.pc = "direct"
    /\ LET got == fetchSideEffectsFromFDA(rsv.medName, resp)
           simplified == simplify(rsv.medName)
       IN rsv' = IF ~got.threw THEN Return(rsv, "direct", got.value)
                 ELSE IF simplified # rsv.medName
                 THEN Request(Failed(rsv), "simplified")
                 ELSE Fallback(Failed(rsv))
    /\ UNCHANGED <<syncVars, storeVars, api, medVars, sevVars>>

\* The fetch of fetchSideEffectsFromFDA(simplified) settles; fetchSideEffects
\* runs to its return.
SimplifiedSettle(resp) ==
    /\ rsv.pc = "simplified"
    /\ LET got == fetchSideEffectsFromFDA(simplify(rsv.medName), resp)
       IN rsv' = IF ~got.threw THEN Return(rsv, "simplified", got.value)
                 ELSE Fallback(Failed(rsv))
    /\ UNCHANGED <<syncVars, storeVars, api, medVars, sevVars>>

ResolverNext ==
    \/ \E medName \in MedNames : FetchSideEffects(medName)
    \/ \E resp \in ProxyResponses(rsv.medName) : ProxySettle(resp)
    \/ \E resp \in FdaResponses : DirectSettle(resp)
    \/ \E resp \in FdaResponses : SimplifiedSettle(resp)

\* One call of fetchSideEffects, under every outcome of its sources.
ResolverSpec == Init /\ [][ResolverNext]_vars

\* ------------------------------------------------------- the medications
\* The medications of a document the client loaded: none; one of an older
\* version of the client, its side effects bare strings; one of an imported
\* file.
LegacyMed ==
    [id |-> 0, name |-> Chars["kava"], endDate |-> 0,
     sideEffects |-> <<Str(Chars["nausea"]), Str(<<>>), Obj(<<>>, <<>>), JsUndefined>>]
ImportedMed ==
    [id |-> 0, name |-> Chars["kava"], endDate |-> 0,
     sideEffects |-> <<Obj(toTitleCase(Chars["headache"]), <<>>), JsNull,
                       Obj(toTitleCase(Chars["headache"]), DESCRIPTIONS[Chars["headache"]])>>]
LoadedMedications == {<<>>, <<LegacyMed>>, <<ImportedMed>>}

\* What fetchSideEffects may resolve to in addMedication: the terms of a
\* response of the external service (reportable terms among excluded ones,
\* or one reportable term), or the "No data found" record.
Resolutions ==
    {FdaResponse(TRUE, <<Chars["NAUSEA"], Chars["DEATH"], Chars["HEADACHE"]>>),
     FdaResponse(TRUE, <<Chars["HEADACHE"]>>),
     FdaResponse(FALSE, <<>>)}
Resolved(medName, resp) ==
    IF resp.ok THEN fetchSideEffectsFromFDA(medName, resp).value
    ELSE NoDataFound(medName)

\* The values of the date input: cleared, today, tomorrow.
Dates == {0, Today, Today + 1}

\* No addMedication is waiting for fetchSideEffects.
NotAdding == [loading |-> FALSE, medications |-> <<>>, name |-> <<>>, endDate |-> 0]

MedsInit ==
    /\ medications \in LoadedMedications
    /\ selectedDate = Today
    /\ activeMeds = ActiveMeds(medications, selectedDate)
    /\ allSideEffects = AllSideEffects(activeMeds)
    /\ adding = NotAdding
    /\ medSeq = 0

\* useMemo(() => state.medications.filter(...), [state.medications]): the
\* selected date is no dependency
activeMedsMemoMedicationsOnly(medicationsV, date) ==
    IF medicationsV # medications
    THEN ActiveMeds(medicationsV, date)
    ELSE activeMeds

\* useMemo(() => state.medications.filter(...), [state.medications,
\* selectedDate]) in the render with these medications and this date
activeMedsMemo(medicationsV, date) ==
    IF medicationsV # medications \/ date # selectedDate
    THEN ActiveMeds(medicationsV, date)
    ELSE activeMeds

\* useMemo(() => ..., [activeMeds]) in the render with this activeMeds
allSideEffectsMemo(activeMedsV) ==
    IF activeMedsV # activeMeds THEN AllSideEffects(activeMedsV) ELSE allSideEffects

\* The render that follows setMedications or setSelectedDate.
Render(medicationsV, date) ==
    /\ medications' = medicationsV
    /\ selectedDate' = date
    /\ activeMeds' = activeMedsMemo(medicationsV, date)
    /\ allSideEffects' = allSideEffectsMemo(activeMeds')

\* addMedication up to await fetchSideEffects(form.name.trim()); the button
\* is disabled while loading.
AddMedication(name, endDate) ==
    /\ ~adding.loading
    /\ medSeq < MaxAdds
    /\ adding' = [loading |-> TRUE, medications |-> medications,
                  name |-> name, endDate |-> endDate]
    /\ UNCHANGED <<medications, selectedDate, activeMeds, allSideEffects, medSeq>>
    /\ UNCHANGED <<syncVars, storeVars, api, rsv, sevVars>>

\* fetchSideEffects resolves; addMedication runs to its end with the
\* medications of the render it was called in.
AddMedicationResolved(resp) ==
    /\ adding.loading
    /\ medSeq' = medSeq + 1
    /\ Render(Append(adding.medications,
                     [id |-> medSeq', name |-> adding.name,
                      endDate |-> adding.endDate,
                      sideEffects |-> Resolved(adding.name, resp)]),
              selectedDate)
    /\ adding' = NotAdding
    /\ UNCHANGED <<syncVars, storeVars, api, rsv, sevVars>>

\* removeMed(id)
RemoveMed(id) ==
    /\ \E i \in DOMAIN medications : medications[i].id = id
    /\ Render(SelectSeq(medications, LAMBDA m : m.id # id), selectedDate)
    /\ UNCHANGED <<adding, medSeq>>
    /\ UNCHANGED <<syncVars, storeVars, api, rsv, sevVars>>

\* onEnd of a medication without an end date: updateMed(med.id, { endDate:
\* today() })
EndMed(id) ==
    /\ \E i \in DOMAIN medications :
          medications[i].id = id /\ medications[i].endDate = 0
    /\ Render([i \in DOMAIN medications |->
                  IF medications[i].id = id
                  THEN [medications[i] EXCEPT !.endDate = Today]
                  ELSE medications[i]],
              selectedDate)
    /\ UNCHANGED <<adding, medSeq>>
    /\ UNCHANGED <<syncVars, storeVars, api, rsv, sevVars>>

\* setSelectedDate(e.target.value) of the date input, which may be cleared
SetSelectedDate(date) ==
    /\ date # selectedDate
    /\ Render(medications, date)
    /\ UNCHANGED <<adding, medSeq>>
    /\ UNCHANGED <<syncVars, storeVars, api, rsv, sevVars>>

MedicationIds == {medications[i].id : i \in DOMAIN medications}

MedsNext ==
    \/ \E name \in {Chars["lithium"], Chars["Sertraline"]} :
          AddMedication(name, 0)
    \/ \E resp \in Resolutions : AddMedicationResolved(resp)
    \/ \E id \in MedicationIds : RemoveMed(id)
    \/ \E id \in MedicationIds : EndMed(id)
    \/ \E date \in Dates : SetSelectedDate(date)

\* The medications of a loaded document under the user's additions,
\* removals, endings and date selections.
MedsSpecInit ==
    /\ SyncInit /\ localStorage = NoItem /\ DATA_FILE = NoFile
    /\ ApiIdle /\ ResolverIdle /\ MedsInit /\ SeveritiesIdle

MedsSpec == MedsSpecInit /\ [][MedsNext]_vars



\* ---------------------------------------------------------- the severities
\* The values of <input type="range" min="0" max="5">: both ends and one
\* between.
SliderValues == {0, 2, 5}

\* The state of WellnessTracker as one document.
Document ==
    [dailyAssessments |-> state.dailyAssessments,
     notes |-> state.notes,
     medications |-> medications,
     sideEffectSeverities |-> sideEffectSeverities]

\* The (date, effect) pairs a severity is stored for.
StoredPairs(severities) ==
    UNION {{<<d, effect>> : effect \in DOMAIN severities[d]} : d \in DOMAIN severities}

\* The effects SideEffectsPanel shows a slider for.
ShownEffects == {allSideEffects[i].name : i \in DOMAIN allSideEffects}

\* onChange of the slider of an effect: setSeverity(effect, +e.target.value)
SetSeverity(effect, val) ==
    /\ effect \in ShownEffects
    /\ Cardinality(StoredPairs(sideEffectSeverities) \cup {<<selectedDate, effect>>})
          <= MaxSev
    /\ LET next == update(Document, setSeverity(Document, selectedDate, effect, val))
       IN /\ state' = [k \in DOMAIN state |-> next[k]]
          /\ sideEffectSeverities' = next.sideEffectSeverities
          /\ Render(next.medications, selectedDate)
    /\ UNCHANGED <<loaded, syncing, initialLoad, saveTimer, timers, timerSeq,
                   localStorage, load, puts, putSeq, auditVars, hist>>
    /\ UNCHANGED <<storeVars, api, rsv, adding, medSeq, call>>

SeverityNext ==
    \/ \E effect \in ShownEffects : \E val \in SliderValues : SetSeverity(effect, val)
    \/ \E id \in MedicationIds : RemoveMed(id)
    \/ \E id \in MedicationIds : EndMed(id)
    \/ \E date \in Dates : SetSelectedDate(date)

\* The severities of a loaded document under the user's sliders, removals,
\* endings and date selections.
SeveritySpec == MedsSpecInit /\ [][SeverityNext]_vars

\* ------------------------------------------------------ the pure functions
\* The strings toTitleCase is called with: a lower-case letter, an upper-case
\* letter, a space and a character whose upper case is two characters.
Alphabet == {"a", "B", " ", SharpS}
Strings == UNION {[1..n -> Alphabet] : n \in 0..MaxLen}

\* The terms the external service reports, in its upper case: the terms of
\* the static table, none of them excluded.
ReportableTerms ==
    [i \in 1..Len(FALLBACK_SIDE_EFFECTS[Chars["lithium"]]) |->
        toUpperCase(FALLBACK_SIDE_EFFECTS[Chars["lithium"]][i])]
    \o SelectSeq([i \in 1..Len(FALLBACK_SIDE_EFFECTS[Chars["sertraline"]]) |->
                    toUpperCase(FALLBACK_SIDE_EFFECTS[Chars["sertraline"]][i])],
                 LAMBDA term : toLowerCase(term) \notin
                     {FALLBACK_SIDE_EFFECTS[Chars["lithium"]][j] :
                        j \in 1..Len(FALLBACK_SIDE_EFFECTS[Chars["lithium"]])})

\* data.results with the first n reportable terms, an excluded term before
\* each of those whose place is in gaps.
RECURSIVE Reported(_, _)
Reported(n, gaps) ==
    IF n = 0 THEN <<>>
    ELSE Reported(n - 1, gaps)
            \o (IF n \in gaps THEN <<Chars["DEATH"]>> ELSE <<>>)
            \o <<ReportableTerms[n]>>
Gaps == {1, 6, 12, 13}
LookupResponses ==
    {FdaResponse(TRUE, Reported(n, gaps)) : n \in 0..MaxTerms, gaps \in SUBSET Gaps}

TitleFunctions == {"toTitleCase", "serverToTitleCase"}
LookupFunctions == {"fetchSideEffectsFromFDA", "queryFDA"}

\* fn(arg)
Apply(fn, arg) ==
    CASE fn = "toTitleCase" -> toTitleCase(arg)
      [] fn = "serverToTitleCase" -> serverToTitleCase(arg)
      [] fn = "fetchSideEffectsFromFDA" -> fetchSideEffectsFromFDA(Chars["kava"], arg)
      [] fn = "queryFDA" -> queryFDA(Chars["kava"], arg)

\* fn is called with arg.
CallFunction(fn, arg) ==
    /\ call.pc = "idle"
    /\ call' = [fn |-> fn, arg |-> arg, pc |-> "called", value |-> <<>>]
    /\ UNCHANGED <<syncVars, storeVars, api, rsv, medVars, sideEffectSeverities>>

\* The call returns.
FunctionReturns ==
    /\ call.pc = "called"
    /\ call' = [call EXCEPT !.pc = "returned", !.value = Apply(call.fn, call.arg)]
    /\ UNCHANGED <<syncVars, storeVars, api, rsv, medVars, sideEffectSeverities>>

\* The function is called again with what it returned (normalizeSideEffects
\* title-cases a name that is stored as a bare string).
CallAgain ==
    /\ call.pc = "returned"
    /\ call' = [call EXCEPT !.arg = call.value, !.pc = "called", !.value = <<>>]
    /\ UNCHANGED <<syncVars, storeVars, api, rsv, medVars, sideEffectSeverities>>

TitleNext ==
    \/ \E fn \in TitleFunctions : \E str \in Strings : CallFunction(fn, str)
    \/ FunctionReturns
    \/ CallAgain

\* toTitleCase of the client and of the server, on every string.
TitleSpec == Init /\ [][TitleNext]_vars

LookupNext ==
    \/ \E fn \in LookupFunctions : \E resp \in LookupResponses : CallFunction(fn, resp)
    \/ FunctionReturns

\* The external lookup of the client and of the server, on every response.
LookupSpec == Init /\ [][LookupNext]_vars

\* ================================================================ claims

SaveTimers == {t \in timers : t.kind = "save"}
SaveTimerIds == {t.id : t \in SaveTimers}
DebouncePuts == {p \in puts : p.kind = "debounce"}

\* C1. Debounce coalescing: the mutations of a burst (each less than the
\* debounce delay after the one before) cause exactly one push: every
\* debounced push is issued once the delay has passed since the last
\* mutation, carries the state as of that mutation, and covers at least one
\* mutation that no earlier push covered; and no mutation stays unpushed
\* beyond the delay.
DebounceCoalescing ==
    /\ lastPush.n > 0 =>
          /\ lastPush.doc = lastPush.state
          /\ lastPush.since >= DebounceTicks
          /\ lastPush.muts >= 1
    /\ mutsSincePush > 0 => sinceMut <= DebounceTicks
    /\ lastPush.n <= nMut

\* C1 witness: one push was issued for a burst of two mutations or more.
BurstPushedOnce == lastPush.n = 1 /\ lastPush.muts >= 2 /\ mutsSincePush = 0

\* C2. The state assignment of the initial load schedules and issues no
\* debounced push, whatever the load found: before the first mutation no
\* debounce timer is pending, no debounced push was issued and the status is
\* not "saving"; and a debounce timer is set only by a mutation made when
\* the client is Ready.
LoadNeverPushes ==
    /\ [](nMut = 0 => SaveTimers = {} /\ DebouncePuts = {} /\ lastPush.n = 0 /\ ~syncing)
    /\ [][SaveTimerIds' \ SaveTimerIds # {} => loaded /\ nMut' = nMut + 1]_vars

\* C2 witness: the load assigned the legacy document and the client is Ready.
LoadAssignedState == loaded /\ nMut = 0 /\ state = LegacyDoc /\ ~initialLoad

\* The client is quiet: Ready, at least one mutation made, no debounce timer
\* pending and no push in flight.
Quiescent == loaded /\ nMut >= 1 /\ SaveTimers = {} /\ puts = {}

\* C3. Eventual consistency of saves: once the mutations have stopped and
\* every issued push has settled (none of them lost or refused), the document
\* the store holds equals the client's latest state.
EventualConsistency ==
    (Quiescent /\ ~hist.lost /\ hist.migrate \in {"none", "ok"})
        => (IsJson(DATA_FILE) /\ JsonParse(DATA_FILE) = state)

\* C3, between debounced pushes alone (no migration push in the run): the
\* same statement.
EventualConsistencyOfDebounced ==
    (Quiescent /\ ~hist.lost /\ hist.migrate = "none")
        => (IsJson(DATA_FILE) /\ JsonParse(DATA_FILE) = state)

\* C4. Whenever a debounced push is in flight, the saving status is true.
SavingWhilePushInFlight == DebouncePuts # {} => syncing

\* C5. The legacy copy is deleted only after the push of the legacy document
\* has succeeded, and is still in the local cache when that push failed.
LegacyDeletedOnlyAfterMigration ==
    /\ (IsJson(hist.legacy) /\ localStorage = NoItem) => hist.migrate = "ok"
    /\ hist.migrate = "failed" => localStorage # NoItem

\* C6. At startup, with a legacy document in the local cache, the client
\* adopts it and pushes it to the store both when the store is unreachable
\* and when it is reachable and holds no document.
LegacyAdoptedWhenStoreEmpty ==
    (loaded /\ nMut = 0 /\ IsJson(hist.legacy)
        /\ (~hist.fetchOk \/ hist.getSaw = "nofile"))
        => (state = JsonParse(hist.legacy) /\ hist.migrate # "none")

\* C6, the unreachable half alone.
LegacyAdoptedWhenUnreachable ==
    (loaded /\ nMut = 0 /\ IsJson(hist.legacy) /\ ~hist.fetchOk)
        => (state = JsonParse(hist.legacy) /\ hist.migrate # "none")

\* C7. Loading to Ready exactly once: whenever the load request has settled,
\* with a store document, a migrated legacy document or nothing, Ready is
\* eventually reached; and once Ready the client never returns to Loading.
ReadyExactlyOnce ==
    /\ [][loaded => loaded']_vars
    /\ (load.stage = "resolved") ~> loaded
    /\ [](loaded <=> load.stage = "done")

\* C7 witness: Ready was reached by adopting the default (nothing found).
ReadyWithDefault == loaded /\ load.data = Null /\ state = DEFAULT_STATE /\ nMut = 0

\* ---------------------------------------------------------------- store
LastEvent == wlog[Len(wlog)]

\* C8. Round trip: after a write the store accepted (200), with no write
\* since, read() returns the document written.
WriteReadRoundTrip ==
    (wlog # <<>> /\ LastEvent.op = "write")
        => readPatientData(DATA_FILE, BACKUP_FILE) = LastEvent.doc

\* C8 as amended: the same, for the accepted documents that carry a
\* dailyAssessments key.
WriteReadRoundTripShaped ==
    (wlog # <<>> /\ LastEvent.op = "write" /\ "dailyAssessments" \in DOMAIN LastEvent.doc)
        => readPatientData(DATA_FILE, BACKUP_FILE) = LastEvent.doc

\* C8 witness: an accepted document that is not the default was written and
\* read() returns it.
WrittenDocReadBack ==
    /\ wlog # <<>> /\ LastEvent.op = "write"
    /\ "dailyAssessments" \in DOMAIN LastEvent.doc
    /\ LastEvent.doc # DEFAULT_STATE
    /\ readPatientData(DATA_FILE, BACKUP_FILE) = LastEvent.doc

\* C9. After two successive successful writes write(d1), write(d2), the
\* second having taken its backup, and the primary then damaged, read()
\* returns d1; the backup file holds that one version and nothing older.
BackupReturnsFirstWrite ==
    (/\ Len(wlog) = 3
     /\ wlog[1].op = "write"
     /\ wlog[2].op = "write" /\ wlog[2].backedUp
     /\ wlog[3].op = "corrupt")
        => /\ readPatientData(DATA_FILE, BACKUP_FILE) = wlog[1].doc
           /\ BACKUP_FILE = Stringify(wlog[1].doc)

\* C9 witness: d1 then d2 written, d1 neither d2 nor the default, the primary
\* damaged, and read() gives d1.
BackupReadAfterCorruption ==
    /\ Len(wlog) = 3
    /\ wlog[1].op = "write"
    /\ wlog[2].op = "write" /\ wlog[2].backedUp
    /\ wlog[3].op = "corrupt"
    /\ wlog[1].doc # wlog[2].doc
    /\ wlog[1].doc # DEFAULT_STATE
    /\ readPatientData(DATA_FILE, BACKUP_FILE) = wlog[1].doc

\* C10. When the primary parses and fails the shape check, read() returns
\* the backup copy if a usable one exists.
ShapeFailureFallsBackToBackup ==
    (/\ IsJson(DATA_FILE)
     /\ "dailyAssessments" \notin DOMAIN JsonParse(DATA_FILE)
     /\ BACKUP_FILE # NoFile /\ IsJson(BACKUP_FILE))
        => readPatientData(DATA_FILE, BACKUP_FILE) = JsonParse(BACKUP_FILE)

\* C11. Every request to an /api/* route whose credential header does not
\* equal the configured key is answered 403.
WrongKeyAnswered403 ==
    api.n > 0 /\ api.key # API_KEY => api.status = 403

\* C11, the store: as long as no request has carried the configured key,
\* neither file has been written.
WrongKeyLeavesStore ==
    api.good = 0 => /\ wlog = <<>>
                    /\ BACKUP_FILE = NoFile
                    /\ DATA_FILE \in {NoFile, Stringify(StoredDoc)}

\* ---------------------------------------------------------------- resolver
Sources == <<"proxy", "direct", "simplified", "table", "sentinel">>
Rank(source) == CHOOSE i \in DOMAIN Sources : Sources[i] = source

\* C12. The resolver tries its sources strictly in the order proxy, direct
\* external lookup, simplified-name retry, static table, sentinel; a source
\* is tried only after every source tried before it has failed; what it
\* returns comes from the last source tried, which is the first that did not
\* fail; at most one source request is in flight at any time.
ResolverSequential ==
    /\ Cardinality(rsv.inflight) <= 1
    /\ \A i \in DOMAIN rsv.tried : \A j \in DOMAIN rsv.tried :
          i < j => /\ Rank(rsv.tried[i]) < Rank(rsv.tried[j])
                   /\ rsv.tried[i] \in rsv.failed
    /\ rsv.tried # <<>> =>
          /\ rsv.tried[1] = "proxy"
          /\ rsv.tried[Len(rsv.tried)] \notin rsv.failed
    /\ rsv.pc \notin {"idle", "done"} =>
          rsv.inflight = {rsv.tried[Len(rsv.tried)]}
    /\ rsv.pc = "done" => rsv.inflight = {} /\ rsv.result # NoList
    /\ rsv.pc # "done" => rsv.result = NoList

\* The external service answered the retry after the proxy and the first
\* lookup had failed.
ThirdSourceAnswered ==
    rsv.pc = "done" /\ rsv.tried = <<"proxy", "direct", "simplified">>

\* C13. Whatever the medication name and the outcomes of the sources, the
\* resolver returns a non-empty list.
ResolverNeverEmpty == rsv.pc = "done" => rsv.result # <<>>

\* C13, the tier: a response of the external service whose terms are all
\* excluded is a failure of the tier that received it.
AllExcludedIsFailure ==
    \A resp \in FdaResponses :
        (resp.ok /\ \A i \in DOMAIN resp.results :
                        toLowerCase(resp.results[i]) \in EXCLUDED_TERMS)
            => fetchSideEffectsFromFDA(rsv.medName, resp).threw

\* The first three sources have failed (the retry counts as failed when the
\* simplified name is the name and no retry is made).
RemoteSourcesFailed ==
    /\ rsv.pc = "done"
    /\ {"proxy", "direct"} \subseteq rsv.failed
    /\ simplify(rsv.medName) # rsv.medName => "simplified" \in rsv.failed

TableKey(medName) == trim(toLowerCase(medName))
InTable(medName) == TableKey(medName) \in DOMAIN FALLBACK_SIDE_EFFECTS

\* Every word starts with its only upper-case letter.
IsTitleCased(str) ==
    \A i \in DOMAIN str :
        LET starts == ~IsSpace(str[i]) /\ (i = 1 \/ IsSpace(str[i - 1])) IN
        /\ starts => \A j \in DOMAIN Lowers : str[i] # Lowers[j]
        /\ ~starts => \A j \in DOMAIN Uppers : str[i] # Uppers[j]

\* needle is a substring of text.
Contains(text, needle) ==
    \E k \in 0..(Len(text) - Len(needle)) :
        SubSeq(text, k + 1, k + Len(needle)) = needle

IsSentinel(list) == Len(list) = 1 /\ list[1].name = Chars["No data found"]

\* C14. When the proxy, the direct lookup and the retry have all failed: for
\* a name in the static table the result is the terms of its entry, in the
\* entry's order, each as an object with the term in title case as name and
\* the term's description; for a name the table lacks, also when simplified,
\* the result is one record named "No data found" whose description
\* contains the name.
FallbackOrder ==
    RemoteSourcesFailed =>
        /\ InTable(rsv.medName) =>
              LET terms == FALLBACK_SIDE_EFFECTS[TableKey(rsv.medName)] IN
              /\ Len(rsv.result) = Len(terms)
              /\ \A i \in DOMAIN terms :
                    /\ rsv.result[i].type = "object"
                    /\ toLowerCase(rsv.result[i].name) = terms[i]
                    /\ IsTitleCased(rsv.result[i].name)
                    /\ rsv.result[i].description =
                          Lookup(DESCRIPTIONS, terms[i], <<>>)
        /\ ~InTable(rsv.medName) /\ ~InTable(simplify(rsv.medName)) =>
              /\ IsSentinel(rsv.result)
              /\ Contains(rsv.result[1].description, rsv.medName)

\* A name in other letters than its key got its entry after the retry failed.
TableEntryAfterRetry ==
    /\ RemoteSourcesFailed
    /\ rsv.medName = Chars["Sertraline"]
    /\ "simplified" \in rsv.failed
    /\ rsv.result[4].name = <<"D", "r", "y", " ", "M", "o", "u", "t", "h">>

\* C15. For a medication name that is in the static table, neither the
\* resolver nor POST /api/side-effects returns the "No data found" record.
NoSentinelForTableName ==
    InTable(rsv.medName) =>
        /\ rsv.pc = "done" => ~IsSentinel(rsv.result)
        /\ rsv.endpoint # NoList => ~IsSentinel(rsv.endpoint)

\* ------------------------------------------------------------ aggregation
\* The medication is active on the selected date.
ActiveOn(m, date) == m.endDate = 0 \/ m.endDate >= date

\* The medication lists the effect name.
Lists(m, name) ==
    \E k \in DOMAIN m.sideEffects : EffectName(m.sideEffects[k]) = name

\* C16. The count of every entry of the view is the number of medications
\* that are active on the selected date and list the entry's name, each
\* medication counted once.
OccurrenceCount ==
    \A e \in DOMAIN allSideEffects :
        allSideEffects[e].count =
            Cardinality({i \in DOMAIN medications :
                            /\ ActiveOn(medications[i], selectedDate)
                            /\ Lists(medications[i], allSideEffects[e].name)})

\* C16, the scenario: two active medications that list the same effect give
\* one entry with count 2 and both medication names.
TwoMedsOneEntry ==
    \A i \in DOMAIN medications : \A j \in DOMAIN medications :
        \A k \in DOMAIN medications[i].sideEffects :
            LET name == EffectName(medications[i].sideEffects[k]) IN
            (/\ i < j
             /\ ActiveOn(medications[i], selectedDate)
             /\ ActiveOn(medications[j], selectedDate)
             /\ name \notin {<<>>, Chars["undefined"]}
             /\ Lists(medications[j], name))
            => \E e \in DOMAIN allSideEffects :
                  /\ allSideEffects[e].name = name
                  /\ allSideEffects[e].count >= 2
                  /\ \E a \in DOMAIN allSideEffects[e].meds :
                        allSideEffects[e].meds[a] = medications[i].name
                  /\ \E b \in DOMAIN allSideEffects[e].meds :
                        allSideEffects[e].meds[b] = medications[j].name

\* C17. A bare-string record and a structured record whose names are the
\* same after normalization are aggregated into one entry: no two entries of
\* the view have the same normalized name.
LegacyAndStructuredMerge ==
    \A i \in DOMAIN allSideEffects : \A j \in DOMAIN allSideEffects :
        i # j => toTitleCase(allSideEffects[i].name)
                    # toTitleCase(allSideEffects[j].name)

\* The record has no usable name: an empty string, null, undefined, or an
\* object without a non-empty name.
Unusable(se) ==
    \/ se.type \in {"null", "undefined"}
    \/ se.name = <<>>

Usable(medicationsV) ==
    [i \in DOMAIN medicationsV |->
        [medicationsV[i] EXCEPT
            !.sideEffects = SelectSeq(@, LAMBDA se : ~Unusable(se))]]

\* C18. A record with no usable name is skipped entirely: the view is the
\* view of the same medications without their unusable records.
UnusableRecordsSkipped ==
    allSideEffects = AllSideEffects(ActiveMeds(Usable(medications), selectedDate))

\* C19. The view is totally ordered: of two entries the one with the higher
\* count comes first, entries with equal counts are in ascending order of
\* their names, and no name appears twice.
ViewTotallyOrdered ==
    \A i \in DOMAIN allSideEffects : \A j \in DOMAIN allSideEffects :
        i < j =>
            /\ allSideEffects[i].name # allSideEffects[j].name
            /\ allSideEffects[i].count >= allSideEffects[j].count
            /\ allSideEffects[i].count = allSideEffects[j].count =>
                  localeCompare(allSideEffects[i].name, allSideEffects[j].name) < 0

\* An entry of two medications stands before two entries of one medication
\* each that are in the order of their names.
ViewOrderedByCountThenName ==
    /\ Len(allSideEffects) >= 3
    /\ allSideEffects[1].count = 2
    /\ allSideEffects[1].meds = <<Chars["lithium"], Chars["Sertraline"]>>
    /\ allSideEffects[2].count = 1
    /\ allSideEffects[3].count = 1

\* C20. After any sequence of additions, endings, removals and date
\* selections the view is the aggregation of the current medications at the
\* selected date, and every medication name in it is the name of a current
\* medication that is active on the selected date and lists the effect.
ViewFollowsMedications ==
    /\ allSideEffects = AllSideEffects(ActiveMeds(medications, selectedDate))
    /\ \A e \in DOMAIN allSideEffects : \A k \in DOMAIN allSideEffects[e].meds :
          \E i \in DOMAIN medications :
              /\ medications[i].name = allSideEffects[e].meds[k]
              /\ ActiveOn(medications[i], selectedDate)
              /\ Lists(medications[i], allSideEffects[e].name)

\* A medication with side effects was ended today, tomorrow is selected, and
\* the view is empty.
EndedMedLeftView ==
    /\ Len(medications) = 1
    /\ medications[1].endDate = Today
    /\ selectedDate = Today + 1
    /\ \E k \in DOMAIN medications[1].sideEffects :
          ~Unusable(medications[1].sideEffects[k])
    /\ allSideEffects = <<>>

\* ------------------------------------------------------------ the pushes
\* C24. At most one debounce timer is pending in every state of the client,
\* and a step that sets a debounce timer leaves that timer as the only one:
\* the timer pending before it is cancelled.
OnePendingDebounceTimer ==
    /\ [](Cardinality(SaveTimers) <= 1)
    /\ [][\A t \in SaveTimers' \ SaveTimers : SaveTimers' = {t}]_vars

\* C24 witness: a second mutation was made while the timer of the first was
\* pending, and one timer, the one of the second, is pending.
TimerSuperseded ==
    /\ mutsSincePush >= 2
    /\ saveTimer >= 2
    /\ SaveTimers # {}
    /\ \A t \in SaveTimers : t.id = saveTimer /\ t.doc = state

\* A push that settles in this step without a 200: the request was lost, or
\* the store refused it or failed to write.
SettlesFailed(p) ==
    /\ p \in puts
    /\ \A q \in puts' : q.id # p.id
    /\ p.stage = "sent" \/ p.status # 200

\* C25. A failed push is swallowed. The step in which a debounced push
\* settles as failed leaves the client's document as it is, issues no
\* request and starts the 300 ms timer whose expiry sets the saving status to
\* false; a debounced push is issued only by the expiry of a debounce timer,
\* with the document of that timer, and a migration push only by the load;
\* there are never more debounced pushes than mutations, never more than one
\* migration push; and the saving status is true only while a timer or a
\* debounced push is still to come.
FailedPushSwallowed ==
    /\ [][\A p \in DebouncePuts : SettlesFailed(p) =>
            /\ state' = state
            /\ loaded' = loaded
            /\ puts' = puts \ {p}
            /\ \E t \in timers' \ timers :
                  /\ t.kind = "flicker" /\ t.rem = FlickerTicks
                  /\ timers' = timers \cup {t}]_vars
    /\ [][\A t \in timers \ timers' :
            (t.kind = "flicker" /\ t.rem = 0) => ~syncing']_vars
    /\ [][\A p \in puts' : (\A q \in puts : q.id # p.id) =>
            \/ /\ p.kind = "debounce"
               /\ \E t \in SaveTimers \ timers' : t.rem = 0 /\ t.doc = p.doc
            \/ /\ p.kind = "migrate"
               /\ load.stage # "resolved" /\ load'.stage = "resolved"]_vars
    /\ [](lastPush.n <= nMut /\ putSeq <= nMut + 1)
    /\ [](syncing => timers # {} \/ DebouncePuts # {})

\* C25 witness: a debounced push failed and settled, nothing is pending or in
\* flight any more, the status is not-saving and the client still holds the
\* document of its mutation, which the store never received.
FailedPushSettled ==
    /\ hist.lost /\ lastPush.n = 1 /\ nMut = 1
    /\ puts = {} /\ timers = {} /\ ~syncing
    /\ state = lastPush.doc
    /\ DATA_FILE # Stringify(state)
    /\ wlog # <<>> /\ LastEvent.op = "failed"

\* ------------------------------------------------------- the backup step
\* The PUT handler answers request p in this step.
Handles(p) ==
    /\ p \in puts /\ p.stage = "sent"
    /\ \E q \in puts' : q.id = p.id /\ q.stage = "answered"
Answer(p) == CHOOSE q \in puts' : q.id = p.id

\* C27. write(doc) copies the existing primary to the backup location and
\* then overwrites the primary: after a write whose backup step ran, the
\* backup file holds the primary as it was before and the primary holds doc.
\* A failed backup step does not block the write: when the primary existed
\* and was not copied, the primary still becomes doc, the backup file is left
\* as it was and the request is answered 200 (unless writing the primary
\* itself fails).
BackupFailureDoesNotBlockWrite ==
    [][\A p \in puts : (Handles(p) /\ p.doc # Null) =>
          LET event == wlog'[Len(wlog')] IN
          /\ wlog' # wlog /\ event.doc = p.doc
          /\ event.backedUp => (DATA_FILE # NoFile /\ BACKUP_FILE' = DATA_FILE)
          /\ ~event.backedUp => BACKUP_FILE' = BACKUP_FILE
          /\ event.op = "write" =>
                (DATA_FILE' = Stringify(p.doc) /\ Answer(p).status = 200)
          /\ event.op # "write" =>
                (DATA_FILE' = DATA_FILE /\ Answer(p).status = 500)]_vars

\* C27 witness: d1 was written, then d2 while the backup step failed: the
\* primary holds d2, the request was answered 200 and the backup file does
\* not hold d1.
WrittenWithoutBackup ==
    /\ Len(wlog) = 2
    /\ wlog[1].op = "write" /\ wlog[2].op = "write" /\ ~wlog[2].backedUp
    /\ wlog[1].doc # wlog[2].doc
    /\ DATA_FILE = Stringify(wlog[2].doc)
    /\ BACKUP_FILE # Stringify(wlog[1].doc)
    /\ \E p \in puts : p.stage = "answered" /\ p.doc = wlog[2].doc /\ p.status = 200

\* ------------------------------------------------------- the failed load
\* The load obtained nothing: the request failed or was refused, or its
\* document failed the shape check, and localStorage held no usable item.
LoadObtainedNothing == load.stage \in {"resolved", "done"} /\ load.data = Null

\* C29. When the initial load did not obtain the store's document and no
\* legacy document was found, the client adopts the default document, and
\* from then on the document the store holds from an earlier session is not
\* replaced: no debounced push of the client overwrites it.
FailedLoadKeepsStoredDocument ==
    /\ [](LoadObtainedNothing /\ loaded /\ nMut = 0 => state = DEFAULT_STATE)
    /\ [][(LoadObtainedNothing /\ DATA_FILE = Stringify(StoredDoc))
             => DATA_FILE' = DATA_FILE]_vars

\* ------------------------------------------------------------ the import
\* C30. After a successful import the primary document of the store stays
\* the imported document (there is no reload of the page in these runs): no
\* step, and so no debounced push of the running client, replaces it.
ImportedDocumentStays ==
    [][DATA_FILE = Stringify(ImportDoc) => DATA_FILE' = DATA_FILE]_vars

\* --------------------------------------------------- medication lifecycle
\* C23. In every step, whatever add, end or remove it belongs to and
\* whatever lookup is in flight: a medication whose endDate is set keeps that
\* endDate as long as it is in the list, and the list gains no medication
\* but the one an add has just created, so a removed medication does not
\* come back.
MedicationLifecycle ==
    [][/\ \A i \in DOMAIN medications : \A j \in DOMAIN medications' :
             (medications[i].endDate # 0 /\ medications'[j].id = medications[i].id)
                => medications'[j].endDate = medications[i].endDate
       /\ \A j \in DOMAIN medications' :
             \/ medications'[j].id \in MedicationIds
             \/ medSeq' = medSeq + 1 /\ medications'[j].id = medSeq']_vars

\* ---------------------------------------------------- name simplification
\* The words of a name: its maximal runs of characters other than spaces.
RECURSIVE Words(_)
Words(str) ==
    IF str = <<>> THEN <<>>
    ELSE IF IsSpace(Head(str)) THEN Words(Tail(str))
    ELSE LET spaces == {i \in DOMAIN str : IsSpace(str[i])}
             n == IF spaces = {} THEN Len(str) + 1
                  ELSE CHOOSE i \in spaces : \A j \in spaces : i <= j
         IN <<SubSeq(str, 1, n - 1)>> \o Words(SubSeq(str, n, Len(str)))

\* A word that is one of the pharmaceutical-form suffixes, in any case.
IsSuffixToken(word) ==
    \E i \in DOMAIN SuffixAlternatives : toLowerCase(word) = SuffixAlternatives[i]

\* The name without its suffix tokens, the other words joined by one space.
RECURSIVE Join(_)
Join(words) ==
    IF words = <<>> THEN <<>>
    ELSE IF Len(words) = 1 THEN words[1]
    ELSE words[1] \o <<" ">> \o Join(Tail(words))
Stem(medName) == Join(SelectSeq(Words(medName), LAMBDA w : ~IsSuffixToken(w)))

Letters(str) == SelectSeq(str, LAMBDA c : ~IsSpace(c))

\* C28. For the name fetchSideEffects was called with: the simplified name
\* is the name without its whole suffix tokens (every other character kept);
\* a name with no suffix token is its own simplified name and is not looked
\* up a third time; and when the network tiers have failed, a name made of a
\* key of the static table and suffix tokens resolves to the list of that
\* key.
SimplifyRemovesWholeTokens ==
    rsv.pc # "idle" =>
        /\ Letters(simplify(rsv.medName)) = Letters(Stem(rsv.medName))
        /\ Stem(rsv.medName) = rsv.medName =>
              /\ simplify(rsv.medName) = rsv.medName
              /\ \A i \in DOMAIN rsv.tried : rsv.tried[i] # "simplified"
        /\ (RemoteSourcesFailed /\ InTable(Stem(rsv.medName))) =>
              rsv.result = buildFromFallback(Stem(rsv.medName))

\* ------------------------------------------------------------- title case
\* C22. Title-casing is idempotent in the client and in the server: what
\* toTitleCase returned is returned unchanged when passed through it again.
TitleCaseIdempotent ==
    (call.fn \in TitleFunctions /\ call.pc = "returned")
        => Apply(call.fn, call.value) = call.value

\* ------------------------------------------------------ the external lookup
\* The terms of the response in flight, lowercased, and the places of those
\* that are not excluded.
LoweredTerms == [i \in DOMAIN call.arg.results |-> toLowerCase(call.arg.results[i])]
KeptPlaces == {i \in DOMAIN LoweredTerms : LoweredTerms[i] \notin EXCLUDED_TERMS}
\* The place of the i-th term that is not excluded.
KeptPlace(i) == CHOOSE k \in KeptPlaces : Cardinality({j \in KeptPlaces : j <= k}) = i

\* C26. A lookup that returned (in the client and in the server) gives at
\* most 12 records; none of their lowercased names is excluded; they are the
\* terms of the response that are not excluded, in the response's order,
\* from the first on: as many as there are, or 12 of them, whatever number
\* of excluded terms stands between them.
LookupCappedAfterExclusion ==
    (call.fn \in LookupFunctions /\ call.pc = "returned" /\ ~call.value.threw) =>
        LET records == call.value.value IN
        /\ Len(records) <= 12
        /\ Len(records) = IF Cardinality(KeptPlaces) < 12
                          THEN Cardinality(KeptPlaces) ELSE 12
        /\ \A i \in DOMAIN records :
              /\ toLowerCase(records[i].name) \notin EXCLUDED_TERMS
              /\ toLowerCase(records[i].name) = LoweredTerms[KeptPlace(i)]

\* C26 witness: of a response with more than 12 reportable terms and
\* excluded terms among its first 12, a lookup returned 12 records, the
\* last of them the term at place 14 of the response.
TwelveBehindExcluded ==
    /\ call.fn \in LookupFunctions /\ call.pc = "returned" /\ ~call.value.threw
    /\ Len(call.value.value) = 12
    /\ Cardinality(KeptPlaces) > 12
    /\ \E i \in 1..12 : i \notin KeptPlaces
    /\ toLowerCase(call.value.value[12].name) = LoweredTerms[14]

\* ------------------------------------------------------------- severities
\* Effect names, in the view or not.
AnyEffects ==
    ShownEffects \cup {toTitleCase(Chars["tremor"]), toTitleCase(Chars["headache"])}

\* The severity stored for an effect on a date; -1 when none is.
Stored(severities, d, effect) ==
    IF d \in DOMAIN severities /\ effect \in DOMAIN severities[d]
    THEN severities[d][effect] ELSE -1

\* C21. In every state, for every effect name E, in the view or not, and
\* every value v: setSeverity(E, v) stores v for E on the selected date,
\* leaves the severity of every other (date, effect) and every other field
\* of the document as it is. In every step: the severities change for one
\* effect on the selected date at most, and then the medications and the
\* rest of the document do not change; and a step that changes the
\* medications (End, Remove) changes no stored severity.
SeverityFrame ==
    /\ [](\A effect \in AnyEffects : \A val \in SliderValues :
            LET next == update(Document,
                               setSeverity(Document, selectedDate, effect, val))
                pairs == StoredPairs(sideEffectSeverities)
            IN /\ Stored(next.sideEffectSeverities, selectedDate, effect) = val
               /\ StoredPairs(next.sideEffectSeverities) =
                     pairs \cup {<<selectedDate, effect>>}
               /\ \A pair \in pairs \ {<<selectedDate, effect>>} :
                     Stored(next.sideEffectSeverities, pair[1], pair[2]) =
                        Stored(sideEffectSeverities, pair[1], pair[2])
               /\ DOMAIN next = DOMAIN Document
               /\ \A k \in DOMAIN Document \ {"sideEffectSeverities"} :
                     next[k] = Document[k])
    /\ [][sideEffectSeverities' # sideEffectSeverities =>
            /\ medications' = medications /\ state' = state
            /\ selectedDate' = selectedDate
            /\ \E effect \in ShownEffects :
                 \A pair \in StoredPairs(sideEffectSeverities)
                                \ {<<selectedDate, effect>>} :
                    Stored(sideEffectSeverities', pair[1], pair[2]) =
                       Stored(sideEffectSeverities, pair[1], pair[2])]_vars
    /\ [][medications' # medications =>
            sideEffectSeverities' = sideEffectSeverities]_vars

\* C21 witness: severities are stored for two (date, effect) pairs, one of
\* them the highest; the medication that listed the effects has been removed
\* and the view is empty.
SeverityOutlivesMedication ==
    /\ Cardinality(StoredPairs(sideEffectSeverities)) = 2
    /\ \E pair \in StoredPairs(sideEffectSeverities) :
          /\ Stored(sideEffectSeverities, pair[1], pair[2]) = 5
          /\ pair[1] # selectedDate
    /\ medications = <<>>
    /\ allSideEffects = <<>>

====
